---- MODULE Spec2Model ----
(***************************************************************************)
(* A model of the service-advertisement decoders of xiaomi-ble-rs: the     *)
(* MiBeacon decoder (src/src/mibeacon.rs, src/src/service.rs,              *)
(* src/src/util.rs) and the Mi Scale decoder (src/src/miscale.rs).         *)
(*                                                                         *)
(* The decoder is declared with binrw derive attributes.  The model gives  *)
(* each attribute the meaning binrw gives it:                              *)
(*   - a field is read at the cursor and advances it by its width; a read  *)
(*     past the end of the slice is an UnexpectedEof error;                *)
(*   - #[br(if(c))] reads the field when c holds and yields None, reading  *)
(*     nothing, otherwise;                                                 *)
(*   - a data enum tries its variants in declaration order, rewinding the  *)
(*     cursor after a failed variant; the first variant that parses wins;  *)
(*     pre_assert is evaluated before the variant's fields are read and    *)
(*     assert after them; the enum fails only when every variant failed,   *)
(*     and that failure is an end-of-file error only if every variant's    *)
(*     failure was one;                                                    *)
(*   - #[br(repr(uN))] reads the integer and fails when no discriminant    *)
(*     equals it;                                                          *)
(*   - until_eof reads items until one fails: an end-of-file failure ends  *)
(*     the collection successfully, any other failure is returned.         *)
(* A byte position is the number of bytes already consumed (0-based).      *)
(* An f64 sensor value v/d is kept as the exact pair [num |-> v, den |-> d]*)
(* and a u32 as the pair <<low 16 bits, high 16 bits>>.                    *)
(***************************************************************************)
EXTENDS Integers, Sequences, FiniteSets, TLC

----------------------------------------------------------------------------
(* Results of a read: Ok(value, bytes consumed) or Err(is_eof).            *)

OkR(v, n) == [ok |-> TRUE, eof |-> FALSE, val |-> <<v>>, n |-> n]
ErrEof == [ok |-> FALSE, eof |-> TRUE, val |-> <<>>, n |-> 0]
ErrBad == [ok |-> FALSE, eof |-> FALSE, val |-> <<>>, n |-> 0]

None == <<>>
Some(v) == <<v>>
IsSome(o) == o # <<>>

ByteAt(b, p) == b[p + 1]
HasBytes(b, p, n) == p + n <= Len(b)
Bits(x, lo, w) == (x \div (2 ^ lo)) % (2 ^ w)
BitSet(x, n) == Bits(x, n, 1) = 1

----------------------------------------------------------------------------
(* Primitive reads (binrw BinRead for integers and byte arrays).           *)

\* Mutant of ReadBytes: bytes past the end of the slice read as zero.
ReadBytesPadded(b, p, n) ==
    OkR([i \in 1 .. n |-> IF p + i <= Len(b) THEN b[p + i] ELSE 0], n)

ReadBytes(b, p, n) ==
    IF HasBytes(b, p, n) THEN OkR(SubSeq(b, p + 1, p + n), n) ELSE ErrEof

ReadU8(b, p) ==
    IF HasBytes(b, p, 1) THEN OkR(ByteAt(b, p), 1) ELSE ErrEof

\* Mutant of ReadU16: the most significant byte comes first.
ReadU16BigEndian(b, p) ==
    IF HasBytes(b, p, 2)
    THEN OkR(256 * ByteAt(b, p) + ByteAt(b, p + 1), 2)
    ELSE ErrEof

ReadU16(b, p) ==
    IF HasBytes(b, p, 2)
    THEN OkR(ByteAt(b, p) + 256 * ByteAt(b, p + 1), 2)
    ELSE ErrEof

\* Mutant of ReadI16: the two bytes are read as an unsigned integer.
ReadI16Unsigned(b, p) ==
    IF HasBytes(b, p, 2)
    THEN OkR(ByteAt(b, p) + 256 * ByteAt(b, p + 1), 2)
    ELSE ErrEof

ReadI16(b, p) ==
    IF HasBytes(b, p, 2)
    THEN LET u == ByteAt(b, p) + 256 * ByteAt(b, p + 1)
         IN  OkR(IF u >= 32768 THEN u - 65536 ELSE u, 2)
    ELSE ErrEof

ReadU32(b, p) ==
    IF HasBytes(b, p, 4)
    THEN OkR(<<ByteAt(b, p) + 256 * ByteAt(b, p + 1),
               ByteAt(b, p + 2) + 256 * ByteAt(b, p + 3)>>, 4)
    ELSE ErrEof

U24(b, p) == ReadBytes(b, p, 3)

as_u32(v) == v[3] * 65536 + v[2] * 256 + v[1]

----------------------------------------------------------------------------
(* Field types of the object payloads.                                     *)

AnyLength == 0 .. 255

\* #[br(repr(u8))] enums: the set of declared discriminants.
FingerprintEventMatchingResult == 0 .. 6
DoorEvent == 0 .. 5
ArmingEventStatus == {0, 1}
Gesture == 1 .. 6
FloodingAlarmEvent == {0, 1}
SmokeAlarmEvent == 0 .. 4
GasAlarmEvent == 0 .. 6
ToothbrushEventType == {0, 1}
DoorbellCameraEvent == 0 .. 6
WeighingEventType == {0, 1, 2}
ButtonEventType == {0, 1, 2, 3}
SleepState == {0, 1}
DoorState == {0, 1, 255}
BindingState == {0, 1}
SwitchState == {0, 1}
WaterImmersionState == {0, 1}
SmokeDetectionState == {0, 1, 2}
GasLeakageDetectionState == {0, 1}
LightIntensityState == {0, 1}
DoorSensorState == {0, 1, 2, 3}
MovementDetectionState == {0, 1}
MiBandSleepState == {0, 1, 2}
RoidmiVacuumCleanerState == {0, 1, 2, 3, 255}
FlowerAndGrassDetectorEvent == {0, 1}
QuingpingSensorLocationEvent == {0, 1}
QuingpingPomodoroEvent == {0, 1, 2, 3}

\* Field descriptors: the type, the valid discriminants of a repr enum, and
\* the lengths at which the field is read (#[br(if(length == n))]).
Fld(t) == [t |-> t, valid |-> {}, when |-> AnyLength, opt |-> FALSE]
Repr8(valid) == [t |-> "repr8", valid |-> valid, when |-> AnyLength, opt |-> FALSE]
Repr16(valid) == [t |-> "repr16", valid |-> valid, when |-> AnyLength, opt |-> FALSE]
\* Mutant of OptFld: the field is read at every length.
OptFldAlways(t, len) == [t |-> t, valid |-> {}, when |-> AnyLength, opt |-> TRUE]

OptFld(t, len) == [t |-> t, valid |-> {}, when |-> {len}, opt |-> TRUE]

\* Mutant of FingerprintEventKeyId: no magic values, every key id is KeyId.
FingerprintEventKeyIdRaw(b, p) ==
    LET r == ReadU32(b, p)
    IN  IF ~r.ok THEN ErrEof
        ELSE OkR([case |-> "KeyId", v |-> r.val[1]], 4)

FingerprintEventKeyId(b, p) ==
    LET r == ReadU32(b, p)
    IN  IF ~r.ok THEN ErrEof
        ELSE IF r.val[1] = <<0, 0>>
             THEN OkR([case |-> "LockAdministrator", v |-> <<0, 0>>], 4)
        ELSE IF r.val[1] = <<65535, 65535>>
             THEN OkR([case |-> "UnknownOperator", v |-> <<65535, 65535>>], 4)
        ELSE OkR([case |-> "KeyId", v |-> r.val[1]], 4)

\* Mutant of SmartPillowState: no Reserved case, other values are rejected.
SmartPillowStateStrict(b, p) ==
    LET r == ReadU8(b, p)
    IN  IF ~r.ok THEN ErrEof
        ELSE IF r.val[1] = 0 THEN OkR([case |-> "OutOfBed", v |-> 0], 1)
        ELSE IF r.val[1] = 1 THEN OkR([case |-> "InBed", v |-> 1], 1)
        ELSE ErrBad

SmartPillowState(b, p) ==
    LET r == ReadU8(b, p)
    IN  IF ~r.ok THEN ErrEof
        ELSE IF r.val[1] = 0 THEN OkR([case |-> "OutOfBed", v |-> 0], 1)
        ELSE IF r.val[1] = 1 THEN OkR([case |-> "InBed", v |-> 1], 1)
        ELSE OkR([case |-> "Reserved", v |-> r.val[1]], 1)

LockEventOperation(b, p) ==
    LET r == ReadU8(b, p)
    IN  IF ~r.ok THEN ErrEof
        ELSE OkR([operation_action |-> Bits(r.val[1], 0, 4),
                  operation_method |-> Bits(r.val[1], 4, 4)], 1)

LockState(b, p) ==
    LET r == ReadU8(b, p)
    IN  IF ~r.ok THEN ErrEof
        ELSE OkR([tongue_ejected |-> BitSet(r.val[1], 0),
                  dead_tongue_ejected |-> BitSet(r.val[1], 1),
                  latch_ejected |-> BitSet(r.val[1], 2),
                  child_lock_ejected |-> BitSet(r.val[1], 3)], 1)

LockEvent(b, p) ==
    LET op == LockEventOperation(b, p)
        key == ReadU32(b, p + 1)
        ts == ReadU32(b, p + 5)
    IN  IF ~op.ok \/ ~key.ok \/ ~ts.ok THEN ErrEof
        ELSE OkR([operation |-> op.val[1], key_id |-> key.val[1],
                  timestamp |-> ts.val[1]], 9)

ReadRepr(r, valid) ==
    IF ~r.ok THEN r
    ELSE IF r.val[1] \in valid THEN r
    ELSE ErrBad

ReadField(f, b, p) ==
    CASE f.t = "u8" -> ReadU8(b, p)
      [] f.t = "u16" -> ReadU16(b, p)
      [] f.t = "i16" -> ReadI16(b, p)
      [] f.t = "u32" -> ReadU32(b, p)
      [] f.t = "U24" -> U24(b, p)
      [] f.t = "repr8" -> ReadRepr(ReadU8(b, p), f.valid)
      [] f.t = "repr16" -> ReadRepr(ReadU16(b, p), f.valid)
      [] f.t = "FingerprintEventKeyId" -> FingerprintEventKeyId(b, p)
      [] f.t = "SmartPillowState" -> SmartPillowState(b, p)
      [] f.t = "LockState" -> LockState(b, p)
      [] f.t = "LockEvent" -> LockEvent(b, p)

\* The fields of one variant, in declaration order.  acc collects the field
\* values and n the bytes consumed so far; r is the read of field i.
RECURSIVE ReadFields(_, _, _, _, _, _, _)
FieldRead(fs, i, length, b, p, acc, n, r) ==
    IF ~r.ok THEN r
    ELSE ReadFields(fs, i + 1, length, b, p,
                    Append(acc, IF fs[i].opt THEN Some(r.val[1]) ELSE r.val[1]),
                    n + r.n)

ReadFields(fs, i, length, b, p, acc, n) ==
    IF i > Len(fs) THEN [ok |-> TRUE, eof |-> FALSE, val |-> acc, n |-> n]
    ELSE IF length \notin fs[i].when
         THEN ReadFields(fs, i + 1, length, b, p, Append(acc, None), n)
    ELSE FieldRead(fs, i, length, b, p, acc, n, ReadField(fs[i], b, p + n))

----------------------------------------------------------------------------
(* The payload enum: its variants in declaration order.  Each names the id *)
(* of its pre_assert, the lengths of its assert and its fields.            *)

Var(name, id, lens, fields) ==
    [name |-> name, id |-> id, lens |-> lens, fields |-> fields]

Variants == <<
    Var("ConnectEvent", 1, {2},  \* id 0x0001
        <<Fld("u16")>>),
    Var("SimplePairingEvent", 2, {2},  \* id 0x0002
        <<Fld("u16")>>),
    Var("ProximityEvent", 3, {2},  \* id 0x0003
        <<Fld("u16")>>),
    Var("KeepAwayEvent", 4, {2},  \* id 0x0004
        <<Fld("u16")>>),
    Var("LockEventDeprecated", 5, {2},  \* id 0x0005
        <<Fld("u16")>>),
    Var("FingerprintEvent", 6, {5},  \* id 0x0006
        <<Fld("FingerprintEventKeyId"), Repr8(FingerprintEventMatchingResult)>>),
    Var("DoorEvent", 7, {1},  \* id 0x0007
        <<Repr8(DoorEvent)>>),
    Var("ArmingEvent", 8, {1, 5},  \* id 0x0008
        <<Repr8(ArmingEventStatus), OptFld("u32", 5)>>),
    Var("GestureEvent", 9, {2},  \* id 0x0009
        <<Repr16(Gesture)>>),
    Var("BodyTemperatureEvent", 10, {2},  \* id 0x000A
        <<Fld("i16")>>),
    Var("LockEvent", 11, {9},  \* id 0x000B
        <<Fld("LockEvent")>>),
    Var("FloodingAlarmEvent", 12, {1},  \* id 0x000C
        <<Repr8(FloodingAlarmEvent)>>),
    Var("SmokeAlarmEvent", 13, {1},  \* id 0x000D
        <<Repr8(SmokeAlarmEvent)>>),
    Var("GasAlarmEvent", 14, {1},  \* id 0x000E
        <<Repr8(GasAlarmEvent)>>),
    Var("MovementAlarmWithIlluminanceEvent", 15, {3},  \* id 0x000F
        <<Fld("U24")>>),
    Var("ToothbrushEvent", 16, {1, 2},  \* id 0x0010
        <<Repr8(ToothbrushEventType), OptFld("u8", 2)>>),
    Var("DoorbellCameraEvent", 17, {1},  \* id 0x0011
        <<Repr8(DoorbellCameraEvent)>>),
    Var("WeighingEvent", 18, {3},  \* id 0x0012
        <<Fld("u16"), Repr8(WeighingEventType)>>),
    Var("ButtonEvent", 18, {3},  \* id 0x0012
        <<Fld("u16"), Repr8(ButtonEventType)>>),
    Var("Sleep", 4098, {1},  \* id 0x1002
        <<Repr8(SleepState)>>),
    Var("Rssi", 4099, {1},  \* id 0x1003
        <<Fld("u8")>>),
    Var("Temperature", 4100, {2},  \* id 0x1004
        <<Fld("i16")>>),
    Var("PowerAndTemperature", 4101, {2},  \* id 0x1005
        <<Fld("u8"), Fld("u8")>>),
    Var("Humidity", 4102, {2},  \* id 0x1006
        <<Fld("u16")>>),
    Var("Illuminance", 4103, {3},  \* id 0x1007
        <<Fld("U24")>>),
    Var("Moisture", 4104, {1},  \* id 0x1008
        <<Fld("u8")>>),
    Var("Conductivity", 4105, {2},  \* id 0x1009
        <<Fld("u16")>>),
    Var("BatteryPower", 4106, {1},  \* id 0x100A
        <<Fld("u8")>>),
    Var("Lock", 4110, {1},  \* id 0x100E
        <<Fld("LockState")>>),
    Var("Door", 4111, {1},  \* id 0x100F
        <<Repr8(DoorState)>>),
    Var("FormaldehydeConcentration", 4112, {2},  \* id 0x1010
        <<Fld("u16")>>),
    Var("Binding", 4113, {2},  \* id 0x1011
        <<Repr8(BindingState)>>),
    Var("Switch", 4114, {1},  \* id 0x1012
        <<Repr8(SwitchState)>>),
    Var("RemainingSupplies", 4115, {1},  \* id 0x1013
        <<Fld("u8")>>),
    Var("WaterImmersion", 4116, {1},  \* id 0x1014
        <<Repr8(WaterImmersionState)>>),
    Var("SmokeDetection", 4117, {1},  \* id 0x1015
        <<Repr8(SmokeDetectionState)>>),
    Var("GasLeakageDetection", 4118, {1},  \* id 0x1016
        <<Repr8(GasLeakageDetectionState)>>),
    Var("TimeWithoutMotion", 4119, {4},  \* id 0x1017
        <<Fld("u32")>>),
    Var("LightIntensity", 4120, {2},  \* id 0x1018
        <<Repr8(LightIntensityState)>>),
    Var("DoorSensor", 4121, {2},  \* id 0x1019
        <<Repr8(DoorSensorState)>>),
    Var("Weight", 4122, {2},  \* id 0x101A
        <<Fld("u16")>>),
    Var("MovementDetection", 4123, {1},  \* id 0x101B
        <<Repr8(MovementDetectionState)>>),
    Var("SmartPillow", 4124, {1},  \* id 0x101C
        <<Fld("SmartPillowState")>>),
    Var("FormaldehydeConcentrationNew", 4124, {2},  \* id 0x101C
        <<Fld("u16")>>),
    Var("BodyTemperature", 8192, {5},  \* id 0x2000
        <<Fld("u16"), Fld("u16"), Fld("u8")>>),
    Var("MiBand", 8193, {4},  \* id 0x2001
        <<Fld("u16"), Repr8(MiBandSleepState), Fld("u8")>>),
    Var("RoidmiVacuumCleaner", 8194, {2},  \* id 0x2002
        <<Repr8(RoidmiVacuumCleanerState), Fld("u8")>>),
    Var("BlackPlusBracelet", 8195, {4},  \* id 0x2003
        <<Fld("u16"), Fld("u8"), Fld("u8")>>),
    Var("FlowerAndGrassDetectorEvent", 12288, {1},  \* id 0x3000
        <<Repr8(FlowerAndGrassDetectorEvent)>>),
    Var("QuingpingSensorLocationEvent", 12289, {1},  \* id 0x3001
        <<Repr8(QuingpingSensorLocationEvent)>>),
    Var("QuingpingPomodoroEvent", 12290, {1},  \* id 0x3002
        <<Repr8(QuingpingPomodoroEvent)>>),
    Var("XiaobelToothbrushEvent", 12291, {5, 6},  \* id 0x3003
        <<Repr8(ToothbrushEventType), Fld("u32"), OptFld("u8", 6)>>)
>>

\* assert(length == ..) of a variant whose fields r have been read.
AssertLength(v, length, r) ==
    IF ~r.ok THEN r
    ELSE IF length \notin v.lens THEN ErrBad
    ELSE OkR([case |-> v.name, fields |-> r.val], r.n)

\* One variant: pre_assert(id == ..), then the fields, then assert(length ..).
ReadVariant(v, id, length, b, p) ==
    IF id # v.id THEN ErrBad
    ELSE AssertLength(v, length, ReadFields(v.fields, 1, length, b, p, <<>>, 0))

UnknownOf(r) ==
    IF ~r.ok THEN r
    ELSE OkR([case |-> "Unknown", fields |-> <<r.val[1]>>], r.n)

\* Mutant of Unknown: an empty payload is rejected.
UnknownRejectsEmpty(length, b, p) ==
    IF length = 0 THEN ErrBad ELSE UnknownOf(ReadBytes(b, p, length))

\* The last variant, Unknown(#[br(count = length)] Vec<u8>), has no pre_assert.
Unknown(length, b, p) == UnknownOf(ReadBytes(b, p, length))

\* Every variant failed: the enum's error is an end-of-file error only if
\* every variant's error was one.
NoVariant(alleof, u) ==
    IF u.ok THEN u
    ELSE IF alleof /\ u.eof THEN ErrEof ELSE ErrBad

\* The variants are tried in declaration order and the first that parses
\* wins: Parsing is the set of variants that parse, FirstVariant the earliest.
Parsing(id, length, b, p) ==
    {i \in DOMAIN Variants : ReadVariant(Variants[i], id, length, b, p).ok}

\* Mutant of FirstVariant: the last variant that parses wins.
LastVariant(S) == CHOOSE i \in S : \A k \in S : i >= k

FirstVariant(S) == CHOOSE i \in S : \A k \in S : i <= k

\* Whether the failure of every named variant was an end-of-file error.
EveryErrorEof(id, length, b, p) ==
    \A i \in DOMAIN Variants : ReadVariant(Variants[i], id, length, b, p).eof

\* m is the set of variants that parse; with none, Unknown is tried last.
VariantTried(m, id, length, b, p) ==
    IF m # {}
    THEN ReadVariant(Variants[FirstVariant(m)], id, length, b, p)
    ELSE NoVariant(EveryErrorEof(id, length, b, p), Unknown(length, b, p))

TryVariants(id, length, b, p) ==
    VariantTried(Parsing(id, length, b, p), id, length, b, p)

MiBeaconObjectPayload(id, length, b, p) == TryVariants(id, length, b, p)

\* Mutant of ObjectOf: the 3 prefix bytes are not counted as consumed.
ObjectOfPayloadOnly(id, length, pl) ==
    IF ~pl.ok THEN pl
    ELSE OkR([id |-> id, length |-> length, payload |-> pl.val[1]], pl.n)

ObjectOf(id, length, pl) ==
    IF ~pl.ok THEN pl
    ELSE OkR([id |-> id, length |-> length, payload |-> pl.val[1]], 3 + pl.n)

ObjectPrefix(id, length, b, p) ==
    IF ~id.ok THEN id
    ELSE IF ~length.ok THEN length
    ELSE ObjectOf(id.val[1], length.val[1],
                  MiBeaconObjectPayload(id.val[1], length.val[1], b, p + 3))

\* id: u16 (little endian), length: u8, payload.
MiBeaconObject(b, p) == ObjectPrefix(ReadU16(b, p), ReadU8(b, p + 2), b, p)

----------------------------------------------------------------------------
(* Header types.                                                           *)

\* Mutant of FrameControl: the two bytes are taken as a big-endian u16, so the
\* first field sits in the low bits of the second byte.
FrameControlBigEndian(b, p) ==
    LET r == ReadBytes(b, p, 2)
    IN  IF ~r.ok THEN r
        ELSE LET b0 == r.val[1][2]
                 b1 == r.val[1][1]
             IN  OkR([is_encrypted |-> BitSet(b0, 3),
                      mac_included |-> BitSet(b0, 4),
                      capabilities_included |-> BitSet(b0, 5),
                      objects_included |-> BitSet(b0, 6),
                      mesh |-> BitSet(b0, 7),
                      registered |-> BitSet(b1, 0),
                      solicited |-> BitSet(b1, 1),
                      auth_mode |-> Bits(b1, 2, 2),
                      version |-> Bits(b1, 4, 4)], 2)

\* modular_bitfield packs fields from the least significant bit of byte 0.
FrameControl(b, p) ==
    LET r == ReadBytes(b, p, 2)
    IN  IF ~r.ok THEN r
        ELSE LET b0 == r.val[1][1]
                 b1 == r.val[1][2]
             IN  OkR([is_encrypted |-> BitSet(b0, 3),
                      mac_included |-> BitSet(b0, 4),
                      capabilities_included |-> BitSet(b0, 5),
                      objects_included |-> BitSet(b0, 6),
                      mesh |-> BitSet(b0, 7),
                      registered |-> BitSet(b1, 0),
                      solicited |-> BitSet(b1, 1),
                      auth_mode |-> Bits(b1, 2, 2),
                      version |-> Bits(b1, 4, 4)], 2)

\* Mutant of MacAddress: a 4-byte address.
MacAddressOfFour(b, p) == ReadBytes(b, p, 4)

MacAddress(b, p) == ReadBytes(b, p, 6)

MiBeaconCapabilities(b, p) ==
    LET r == ReadU8(b, p)
    IN  IF ~r.ok THEN r
        ELSE OkR([connectable |-> BitSet(r.val[1], 0),
                  centralable |-> BitSet(r.val[1], 1),
                  encryptable |-> BitSet(r.val[1], 2),
                  bond_ability |-> Bits(r.val[1], 3, 2),
                  io |-> BitSet(r.val[1], 5)], 1)

MiBeaconBaseIoCapabilities(v) ==
    [can_input_6_digits |-> BitSet(v, 0),
     can_input_6_characters |-> BitSet(v, 1),
     can_read_nfc_tags |-> BitSet(v, 2),
     can_read_qr_codes |-> BitSet(v, 3),
     can_output_6_digits |-> BitSet(v, 4),
     can_output_6_characters |-> BitSet(v, 5),
     can_generate_nfc_tags |-> BitSet(v, 6),
     can_generate_qr_code |-> BitSet(v, 7)]

MiBeaconIoCapabilities(b, p) ==
    LET r == ReadBytes(b, p, 2)
    IN  IF ~r.ok THEN r
        ELSE OkR([base_io_capabilities |-> MiBeaconBaseIoCapabilities(r.val[1][1]),
                  reserved |-> r.val[1][2]], 2)

\* Mutant of IoCapabilitiesIncluded: the io flag is not consulted.
IoCapabilitiesWithCapabilities(cap) == IsSome(cap)

\* Mutant of MacIncluded: the MAC address is read whatever the flag says.
MacIncludedAlways(fc) == TRUE

\* The conditions of the #[br(if(..))] attributes of the advertisement.
MacIncluded(fc) == fc.mac_included
CapabilitiesIncluded(fc) == fc.capabilities_included
IoCapabilitiesIncluded(cap) == IsSome(cap) /\ cap[1].io

\* Mutant of ObjectsIncluded: the objects are read whatever the flag says.
ObjectsIncludedAlways(fc) == TRUE

ObjectsIncluded(fc) == fc.objects_included

----------------------------------------------------------------------------
(* Sensor events.                                                          *)

NumericMeasurement(type, num, den, unit) ==
    [kind |-> "NumericMeasurement", measurement_type |-> type,
     value |-> [num |-> num, den |-> den], unit |-> unit]

\* Mutant of to_sensor_events: the temperature is not divided by 10.
to_sensor_events_unscaled(payload) ==
    CASE payload.case = "Temperature" ->
            <<NumericMeasurement("Temperature", payload.fields[1], 1, "DegreesCelsius")>>
      [] payload.case = "Humidity" ->
            <<NumericMeasurement("Humidity", payload.fields[1], 10, "Percent")>>
      [] payload.case = "Illuminance" ->
            <<NumericMeasurement("Illuminance", as_u32(payload.fields[1]), 1, "Lux")>>
      [] payload.case = "Moisture" ->
            <<NumericMeasurement("Moisture", payload.fields[1], 1, "Percent")>>
      [] payload.case = "Conductivity" ->
            <<NumericMeasurement("Conductivity", payload.fields[1], 1,
                                 "MicrosiemensPerCentimeter")>>
      [] payload.case = "FormaldehydeConcentration" ->
            <<NumericMeasurement("FormaldehydeConcentration", payload.fields[1], 100,
                                 "MilligramPerCubicMeter")>>
      [] payload.case = "FormaldehydeConcentrationNew" ->
            <<NumericMeasurement("FormaldehydeConcentration", payload.fields[1], 1000,
                                 "MilligramPerCubicMeter")>>
      [] payload.case = "BatteryPower" ->
            <<NumericMeasurement("BatteryPower", payload.fields[1], 1, "Percent")>>
      [] payload.case = "RemainingSupplies" ->
            <<NumericMeasurement("RemainingSupplies", payload.fields[1], 1, "Percent")>>
      [] payload.case = "Weight" ->
            <<NumericMeasurement("Weight", payload.fields[1], 1, "Kilogram")>>
      [] OTHER -> <<>>

\* Mutant of to_sensor_events: both formaldehyde ids are divided by 100.
to_sensor_events_conflated(payload) ==
    CASE payload.case = "Temperature" ->
            <<NumericMeasurement("Temperature", payload.fields[1], 10, "DegreesCelsius")>>
      [] payload.case = "Humidity" ->
            <<NumericMeasurement("Humidity", payload.fields[1], 10, "Percent")>>
      [] payload.case = "Illuminance" ->
            <<NumericMeasurement("Illuminance", as_u32(payload.fields[1]), 1, "Lux")>>
      [] payload.case = "Moisture" ->
            <<NumericMeasurement("Moisture", payload.fields[1], 1, "Percent")>>
      [] payload.case = "Conductivity" ->
            <<NumericMeasurement("Conductivity", payload.fields[1], 1,
                                 "MicrosiemensPerCentimeter")>>
      [] payload.case \in {"FormaldehydeConcentration", "FormaldehydeConcentrationNew"} ->
            <<NumericMeasurement("FormaldehydeConcentration", payload.fields[1], 100,
                                 "MilligramPerCubicMeter")>>
      [] payload.case = "BatteryPower" ->
            <<NumericMeasurement("BatteryPower", payload.fields[1], 1, "Percent")>>
      [] payload.case = "RemainingSupplies" ->
            <<NumericMeasurement("RemainingSupplies", payload.fields[1], 1, "Percent")>>
      [] payload.case = "Weight" ->
            <<NumericMeasurement("Weight", payload.fields[1], 1, "Kilogram")>>
      [] OTHER -> <<>>

\* Mutant of to_sensor_events: the weight is taken as grams and divided by 1000.
to_sensor_events_grams(payload) ==
    CASE payload.case = "Temperature" ->
            <<NumericMeasurement("Temperature", payload.fields[1], 10, "DegreesCelsius")>>
      [] payload.case = "Humidity" ->
            <<NumericMeasurement("Humidity", payload.fields[1], 10, "Percent")>>
      [] payload.case = "Illuminance" ->
            <<NumericMeasurement("Illuminance", as_u32(payload.fields[1]), 1, "Lux")>>
      [] payload.case = "Moisture" ->
            <<NumericMeasurement("Moisture", payload.fields[1], 1, "Percent")>>
      [] payload.case = "Conductivity" ->
            <<NumericMeasurement("Conductivity", payload.fields[1], 1,
                                 "MicrosiemensPerCentimeter")>>
      [] payload.case = "FormaldehydeConcentration" ->
            <<NumericMeasurement("FormaldehydeConcentration", payload.fields[1], 100,
                                 "MilligramPerCubicMeter")>>
      [] payload.case = "FormaldehydeConcentrationNew" ->
            <<NumericMeasurement("FormaldehydeConcentration", payload.fields[1], 1000,
                                 "MilligramPerCubicMeter")>>
      [] payload.case = "BatteryPower" ->
            <<NumericMeasurement("BatteryPower", payload.fields[1], 1, "Percent")>>
      [] payload.case = "RemainingSupplies" ->
            <<NumericMeasurement("RemainingSupplies", payload.fields[1], 1, "Percent")>>
      [] payload.case = "Weight" ->
            <<NumericMeasurement("Weight", payload.fields[1], 1000, "Kilogram")>>
      [] OTHER -> <<>>

to_sensor_events(payload) ==
    CASE payload.case = "Temperature" ->
            <<NumericMeasurement("Temperature", payload.fields[1], 10, "DegreesCelsius")>>
      [] payload.case = "Humidity" ->
            <<NumericMeasurement("Humidity", payload.fields[1], 10, "Percent")>>
      [] payload.case = "Illuminance" ->
            <<NumericMeasurement("Illuminance", as_u32(payload.fields[1]), 1, "Lux")>>
      [] payload.case = "Moisture" ->
            <<NumericMeasurement("Moisture", payload.fields[1], 1, "Percent")>>
      [] payload.case = "Conductivity" ->
            <<NumericMeasurement("Conductivity", payload.fields[1], 1,
                                 "MicrosiemensPerCentimeter")>>
      [] payload.case = "FormaldehydeConcentration" ->
            <<NumericMeasurement("FormaldehydeConcentration", payload.fields[1], 100,
                                 "MilligramPerCubicMeter")>>
      [] payload.case = "FormaldehydeConcentrationNew" ->
            <<NumericMeasurement("FormaldehydeConcentration", payload.fields[1], 1000,
                                 "MilligramPerCubicMeter")>>
      [] payload.case = "BatteryPower" ->
            <<NumericMeasurement("BatteryPower", payload.fields[1], 1, "Percent")>>
      [] payload.case = "RemainingSupplies" ->
            <<NumericMeasurement("RemainingSupplies", payload.fields[1], 1, "Percent")>>
      [] payload.case = "Weight" ->
            <<NumericMeasurement("Weight", payload.fields[1], 1, "Kilogram")>>
      [] OTHER -> <<>>

\* Mutant of FlatMapEvents: the events of later objects come first.
RECURSIVE FlatMapEventsReversed(_, _)
FlatMapEventsReversed(objs, i) ==
    IF i > Len(objs) THEN <<>>
    ELSE FlatMapEventsReversed(objs, i + 1) \o to_sensor_events(objs[i].payload)

\* objects.iter().flat_map(|obj| obj.payload.to_sensor_events())
RECURSIVE FlatMapEvents(_, _)
FlatMapEvents(objs, i) ==
    IF i > Len(objs) THEN <<>>
    ELSE to_sensor_events(objs[i].payload) \o FlatMapEvents(objs, i + 1)

iter_sensor_events(objs) == FlatMapEvents(objs, 1)

\* Mutant of service_uuid_to_type: an unknown UUID is taken for MiBeacon.
service_uuid_to_type_lenient(u) ==
    CASE u = 65173 -> Some("MiBeacon")
      [] u = 64848 -> Some("HHCCJCY10")
      [] u = 6173 -> Some("Scale1")
      [] u = 6171 -> Some("Scale2")
      [] OTHER -> Some("MiBeacon")

\* service_uuid_to_type: the 16-bit part of the Bluetooth base UUID.
service_uuid_to_type(u) ==
    CASE u = 65173 -> Some("MiBeacon")     \* 0xfe95
      [] u = 64848 -> Some("HHCCJCY10")    \* 0xfd50
      [] u = 6173 -> Some("Scale1")        \* 0x181d
      [] u = 6171 -> Some("Scale2")        \* 0x181b
      [] OTHER -> None

----------------------------------------------------------------------------
(* The Mi Scale advertisement (src/src/miscale.rs).  An f64 product        *)
(* weight * c, c a decimal constant m * 10^-e, is kept as the exact record *)
(* [num |-> weight, factor |-> [mant |-> m, exp |-> e]].                    *)

PacketHeaderV1(b, p) ==
    LET r == ReadU8(b, p)
    IN  IF ~r.ok THEN r
        ELSE OkR([weight_unit_is_pounds |-> BitSet(r.val[1], 0),
                  weight_unit_is_catty |-> BitSet(r.val[1], 4),
                  weight_stabilized |-> BitSet(r.val[1], 5),
                  weight_removed |-> BitSet(r.val[1], 7)], 1)

PacketV1(b, p) ==
    LET h == PacketHeaderV1(b, p)
        w == ReadU16(b, p + 1)
        reserved == ReadBytes(b, p + 3, 7)
    IN  IF ~h.ok \/ ~w.ok \/ ~reserved.ok THEN ErrEof
        ELSE OkR([case |-> "MiScaleV1", header |-> h.val[1], weight |-> w.val[1]], 10)

PacketHeaderV2(b, p) ==
    LET r == ReadBytes(b, p, 2)
    IN  IF ~r.ok THEN r
        ELSE OkR([weight_unit_is_pounds |-> BitSet(r.val[1][1], 7),
                  weight_removed |-> BitSet(r.val[1][2], 0),
                  weight_unit_is_catty |-> BitSet(r.val[1][2], 1),
                  weight_stabilized |-> BitSet(r.val[1][2], 2),
                  impedance_stabilized |-> BitSet(r.val[1][2], 6)], 2)

PacketV2(b, p) ==
    LET h == PacketHeaderV2(b, p)
        reserved == ReadBytes(b, p + 2, 7)
        i == ReadU16(b, p + 9)
        w == ReadU16(b, p + 11)
    IN  IF ~h.ok \/ ~reserved.ok \/ ~i.ok \/ ~w.ok THEN ErrEof
        ELSE OkR([case |-> "MiScaleV2", header |-> h.val[1],
                  impedance |-> i.val[1], weight |-> w.val[1]], 13)

\* enum MiScalePacket: MiScaleV1 under pre_assert(device_id == 0x181D),
\* MiScaleV2 under pre_assert(device_id == 0x181B); no other variant.
MiScalePacket(dev, b, p) ==
    IF dev = 6173 THEN PacketV1(b, p)
    ELSE IF dev = 6171 THEN PacketV2(b, p)
    ELSE ErrBad

\* The WeightUnit factors of weight_kilograms.
TwoHundredKilograms == [mant |-> 5, exp |-> 3]           \* 0.005
OneHundredPounds == [mant |-> 45359237, exp |-> 10]     \* 0.0045359237
OneHundredCatty == [mant |-> 1, exp |-> 2]              \* 0.01

\* Mutant of weight: the catty flag is consulted before the pound flag.
weight_catty_first(pkt) ==
    IF pkt.header.weight_removed THEN None
    ELSE Some(<<pkt.weight,
                IF pkt.header.weight_unit_is_catty THEN OneHundredCatty
                ELSE IF pkt.header.weight_unit_is_pounds THEN OneHundredPounds
                ELSE TwoHundredKilograms>>)

\* PacketV1::weight and PacketV2::weight (the same code).
weight(pkt) ==
    IF pkt.header.weight_removed THEN None
    ELSE Some(<<pkt.weight,
                IF pkt.header.weight_unit_is_pounds THEN OneHundredPounds
                ELSE IF pkt.header.weight_unit_is_catty THEN OneHundredCatty
                ELSE TwoHundredKilograms>>)

weight_kilograms(pkt) ==
    IF weight(pkt) = None THEN None
    ELSE Some([num |-> weight(pkt)[1][1], factor |-> weight(pkt)[1][2]])

impedance(pkt) ==
    IF pkt.case = "MiScaleV1" THEN None ELSE Some(pkt.impedance)

ScaleMeasurement(type, value, unit) ==
    [kind |-> "NumericMeasurement", measurement_type |-> type,
     value |-> value, unit |-> unit]

\* MiScaleServiceAdvertisement::iter_sensor_events
miscale_iter_sensor_events(pkt) ==
    (IF weight_kilograms(pkt) # None
     THEN <<ScaleMeasurement("Weight", weight_kilograms(pkt)[1], "Kilogram")>>
     ELSE <<>>)
    \o (IF impedance(pkt) # None
        THEN <<ScaleMeasurement("Impedance",
                                [num |-> impedance(pkt)[1], den |-> 1], "Ohm")>>
        ELSE <<>>)

----------------------------------------------------------------------------
(* Inputs: the (uuid, payload) pairs handed to parse_service_advertisement.*)

MaxObjects == 2      \* records in a generated object stream
MaxCut == 4          \* bytes cut from the end of a generated stream
MaxTraversals == 2   \* traversals of the sensor events of one advertisement

MIBEACON_UUID == 65173
HHCCJCY10_UUID == 64848
SCALE1_UUID == 6173
SCALE2_UUID == 6171
\* A UUID that service_uuid_to_type does not know (0x180f, battery service).
OtherUuid == {6159}

Min(a, b) == IF a < b THEN a ELSE b

Rec(id, length, bytes) == <<id % 256, id \div 256, length>> \o bytes

MacBytes == <<102, 85, 68, 51, 34, 17>>
IoBytes == <<3, 0>>

\* A well-formed header for the frame-control byte fc0 and capability byte cap.
Hdr(fc0, cap) ==
    <<fc0, 32, 152, 0, 177>>
    \o (IF BitSet(fc0, 4) THEN MacBytes ELSE <<>>)
    \o (IF BitSet(fc0, 5) THEN <<cap>> ELSE <<>>)
    \o (IF BitSet(fc0, 5) /\ BitSet(cap, 5) THEN IoBytes ELSE <<>>)

FrameControlBytes == {0, 16, 32, 48, 64, 80, 96, 112, 113}
CapabilityBytes == {13, 45}
Headers == {Hdr(f, c) : f \in FrameControlBytes, c \in CapabilityBytes}

\* Objects only / the header of the HHCCJCY01 sample frames.
PlainHeader == Hdr(64, 13)
SampleHeader == Hdr(113, 13)

VariantIds == {Variants[i].id : i \in DOMAIN Variants}
\* Ids no variant names: 0x0000, 0x100B, 0x9999, 0xFFFF.
UnknownIds == {0, 4107, 39321, 65535}

Patterns == <<
    <<0, 0, 0, 0, 0, 0, 0, 0, 0, 0, 0>>,
    <<1, 1, 1, 1, 1, 1, 1, 1, 1, 1, 1>>,
    <<255, 255, 255, 255, 255, 255, 255, 255, 255, 255, 255>>,
    <<236, 0, 3, 1, 2, 0, 7, 9, 128, 5, 4>>,
    <<23, 128, 2, 0, 1, 100, 0, 0, 0, 6, 9>>
>>
DeclaredLengths == {0, 1, 2, 3, 4, 5, 6, 9}
\* Payload bytes present, relative to the declared length.
Presence == {-1, 0, 1, 2}

\* One record of every id at every declared length, with fewer, exactly as
\* many or more bytes after the prefix than declared.
SingleObjectInputs ==
    {PlainHeader \o Rec(x[1], x[2], SubSeq(Patterns[x[4]], 1, x[2] + x[3])) :
        x \in {y \in (VariantIds \cup UnknownIds) \X DeclaredLengths
                       \X Presence \X DOMAIN Patterns : y[2] + y[3] >= 0}}

StreamRecords ==
    {Rec(4100, 2, <<236, 0>>), Rec(4104, 1, <<23>>), Rec(4113, 2, <<1, 0>>),
     Rec(39321, 0, <<>>), Rec(65535, 2, <<7, 8>>), Rec(4101, 2, <<1, 25>>),
     Rec(4100, 1, <<5>>), Rec(409, 0, <<>>)}

RECURSIVE Streams(_)
Streams(n) ==
    IF n = 0 THEN {<<>>}
    ELSE LET s == Streams(n - 1)
         IN  s \cup {x \o r : x \in s, r \in StreamRecords}

Cut(b, c) == SubSeq(b, 1, Len(b) - Min(c, Len(b)))

StreamInputs ==
    {Cut(h \o s, c) : h \in {PlainHeader, SampleHeader},
                      s \in Streams(MaxObjects), c \in 0 .. MaxCut}

HeaderInputs ==
    {Cut(h \o s, c) : h \in Headers, s \in Streams(1), c \in 0 .. 17}

\* The same raw 16-bit value under both formaldehyde ids, 0x1010 then 0x101C.
FormaldehydeRaws == {<<0, 0>>, <<1, 0>>, <<236, 0>>, <<16, 39>>, <<255, 255>>}
FormaldehydePair(v) == PlainHeader \o Rec(4112, 2, v) \o Rec(4124, 2, v)
PairInputs == {FormaldehydePair(v) : v \in FormaldehydeRaws}

\* The frames of the unit tests (HHCCJCY01 temperature and moisture readings).
HHCCJCY01_TEMPERATURE_READING ==
    <<113, 32, 152, 0, 177, 102, 85, 68, 51, 34, 17, 13, 4, 16, 2, 236, 0>>
HHCCJCY01_MOISTURE_READING ==
    <<113, 32, 152, 0, 215, 102, 85, 68, 51, 34, 17, 13, 8, 16, 1, 23>>
SampleFrames == {HHCCJCY01_TEMPERATURE_READING, HHCCJCY01_MOISTURE_READING}

\* Fingerprint events (id 0x0006, length 5): the two magic key ids, their
\* neighbours, and mixed values, each with a valid matching result.
FingerprintKeyIds ==
    {<<0, 0, 0, 0>>, <<255, 255, 255, 255>>, <<1, 0, 0, 0>>, <<0, 0, 0, 1>>,
     <<254, 255, 255, 255>>, <<255, 255, 255, 127>>, <<255, 255, 0, 0>>,
     <<0, 0, 255, 255>>, <<120, 86, 52, 18>>}
FingerprintInputs ==
    {PlainHeader \o Rec(6, 5, k \o <<m>>) : k \in FingerprintKeyIds, m \in {0, 6}}

\* Headers with every combination of the optional fields and with device ids
\* and packet ids whose bytes differ, followed by one temperature object.
HeaderFieldInputs ==
    {[Hdr(f, c) EXCEPT ![3] = d[1], ![4] = d[2], ![5] = d[3]]
        \o Rec(4100, 2, <<236, 0>>) :
        f \in {64, 80, 96, 112}, c \in CapabilityBytes,
        d \in {<<1, 2, 3>>, <<255, 0, 0>>, <<0, 128, 255>>, <<52, 18, 7>>}}

\* The same two bytes as a temperature (id 0x1004) and as a humidity (id
\* 0x1006): the ends of the signed and of the unsigned 16-bit range.
SignInputs ==
    {PlainHeader \o Rec(4100, 2, v) \o Rec(4102, 2, v) :
        v \in {<<0, 0>>, <<255, 127>>, <<0, 128>>, <<255, 255>>}}

MiBeaconInputs ==
    SingleObjectInputs \cup StreamInputs \cup HeaderInputs \cup PairInputs
    \cup SampleFrames \cup FingerprintInputs \cup HeaderFieldInputs
    \cup SignInputs

OtherInputs == {<<>>, SampleHeader \o Rec(4100, 2, <<236, 0>>), <<113, 32>>}

Inputs ==
    {<<MIBEACON_UUID, b>> : b \in MiBeaconInputs}
    \cup {<<u, b>> : u \in {HHCCJCY10_UUID, SCALE1_UUID, SCALE2_UUID} \cup OtherUuid,
                     b \in OtherInputs}

----------------------------------------------------------------------------
(* The decoder as a state machine.                                         *)

VARIABLES
    uuid,             \* the service UUID of the call
    buf,              \* the payload slice
    pos,              \* the cursor: bytes consumed
    pc,               \* the field the decoder reads next
    frame_control, device_id, packet_id,
    mac_address, capabilities, io_capabilities,
    objects,          \* the objects collected so far
    offsets,          \* history: the cursor at which each object began
    result,           \* what parse_service_advertisement returns
    events,           \* the events the last traversal yielded
    traversals,       \* how many traversals have run
    payload,          \* the MiScalePacket of a scale advertisement
    other,            \* a second call in progress, suspended
    calls,            \* how many calls have begun
    alone             \* the outcome of the first call when it ran alone

vars == <<uuid, buf, pos, pc, frame_control, device_id, packet_id, mac_address,
          capabilities, io_capabilities, objects, offsets, result, events,
          traversals, payload, other, calls, alone>>

\* A field the decoder has not read.
NotRead == <<>>
\* A u16 or u8 field the decoder has not read: no value of the field's type.
NoInteger == -1

Init ==
    /\ \E i \in Inputs : uuid = i[1] /\ buf = i[2]
    /\ pos = 0
    /\ pc = "Start"
    /\ frame_control = NotRead
    /\ device_id = NoInteger
    /\ packet_id = NoInteger
    /\ mac_address = None
    /\ capabilities = None
    /\ io_capabilities = None
    /\ objects = <<>>
    /\ offsets = <<>>
    /\ result = "Pending"
    /\ events = <<>>
    /\ traversals = 0
    /\ payload = NotRead
    /\ other = None
    /\ calls = 1
    /\ alone = None

\* A failed read: binrw returns the error, from_slice wraps it in ParseError
\* and parse_service_advertisement in ParsingFailed.
Fail ==
    /\ pc' = "Failed"
    /\ result' = "ParsingFailed"

\* Mutant of parse_service_advertisement: every UUID that maps to a protocol
\* family is handed to the MiBeacon decoder.
parse_service_advertisement_any_family ==
    /\ pc = "Start"
    /\ IF service_uuid_to_type(uuid) # None
       THEN pc' = "ReadFrameControl" /\ result' = result
       ELSE pc' = "Failed" /\ result' = "UnhandledService"
    /\ UNCHANGED <<payload, other, calls, alone>>
    /\ UNCHANGED <<uuid, buf, pos, frame_control, device_id, packet_id, mac_address,
                   capabilities, io_capabilities, objects, offsets, events,
                   traversals>>

parse_service_advertisement ==
    /\ pc = "Start"
    /\ IF service_uuid_to_type(uuid) = Some("MiBeacon")
       THEN pc' = "ReadFrameControl" /\ result' = result
       ELSE pc' = "Failed" /\ result' = "UnhandledService"
    /\ UNCHANGED <<payload, other, calls, alone>>
    /\ UNCHANGED <<uuid, buf, pos, frame_control, device_id, packet_id, mac_address,
                   capabilities, io_capabilities, objects, offsets, events,
                   traversals>>

ReadFrameControl ==
    /\ pc = "ReadFrameControl"
    /\ LET r == FrameControl(buf, pos)
       IN  IF r.ok
           THEN /\ pc' = "ReadDeviceId"
                /\ frame_control' = r.val[1]
                /\ pos' = pos + r.n
                /\ result' = result
           ELSE Fail /\ UNCHANGED <<frame_control, pos>>
    /\ UNCHANGED <<payload, other, calls, alone>>
    /\ UNCHANGED <<uuid, buf, device_id, packet_id, mac_address, capabilities,
                   io_capabilities, objects, offsets, events, traversals>>

ReadDeviceId ==
    /\ pc = "ReadDeviceId"
    /\ LET r == ReadU16(buf, pos)
       IN  IF r.ok
           THEN /\ pc' = "ReadPacketId"
                /\ device_id' = r.val[1]
                /\ pos' = pos + r.n
                /\ result' = result
           ELSE Fail /\ UNCHANGED <<device_id, pos>>
    /\ UNCHANGED <<payload, other, calls, alone>>
    /\ UNCHANGED <<uuid, buf, frame_control, packet_id, mac_address, capabilities,
                   io_capabilities, objects, offsets, events, traversals>>

ReadPacketId ==
    /\ pc = "ReadPacketId"
    /\ LET r == ReadU8(buf, pos)
       IN  IF r.ok
           THEN /\ pc' = "ReadMac"
                /\ packet_id' = r.val[1]
                /\ pos' = pos + r.n
                /\ result' = result
           ELSE Fail /\ UNCHANGED <<packet_id, pos>>
    /\ UNCHANGED <<payload, other, calls, alone>>
    /\ UNCHANGED <<uuid, buf, frame_control, device_id, mac_address, capabilities,
                   io_capabilities, objects, offsets, events, traversals>>

ReadMac ==
    /\ pc = "ReadMac"
    /\ IF MacIncluded(frame_control)
       THEN LET r == MacAddress(buf, pos)
            IN  IF r.ok
                THEN /\ mac_address' = Some(r.val[1])
                     /\ pos' = pos + r.n
                     /\ pc' = "ReadCapabilities"
                     /\ result' = result
                ELSE Fail /\ UNCHANGED <<mac_address, pos>>
       ELSE /\ mac_address' = None
            /\ pc' = "ReadCapabilities"
            /\ UNCHANGED <<pos, result>>
    /\ UNCHANGED <<payload, other, calls, alone>>
    /\ UNCHANGED <<uuid, buf, frame_control, device_id, packet_id, capabilities,
                   io_capabilities, objects, offsets, events, traversals>>

ReadCapabilities ==
    /\ pc = "ReadCapabilities"
    /\ IF CapabilitiesIncluded(frame_control)
       THEN LET r == MiBeaconCapabilities(buf, pos)
            IN  IF r.ok
                THEN /\ capabilities' = Some(r.val[1])
                     /\ pos' = pos + r.n
                     /\ pc' = "ReadIoCapabilities"
                     /\ result' = result
                ELSE Fail /\ UNCHANGED <<capabilities, pos>>
       ELSE /\ capabilities' = None
            /\ pc' = "ReadIoCapabilities"
            /\ UNCHANGED <<pos, result>>
    /\ UNCHANGED <<payload, other, calls, alone>>
    /\ UNCHANGED <<uuid, buf, frame_control, device_id, packet_id, mac_address,
                   io_capabilities, objects, offsets, events, traversals>>

ReadIoCapabilities ==
    /\ pc = "ReadIoCapabilities"
    /\ IF IoCapabilitiesIncluded(capabilities)
       THEN LET r == MiBeaconIoCapabilities(buf, pos)
            IN  IF r.ok
                THEN /\ io_capabilities' = Some(r.val[1])
                     /\ pos' = pos + r.n
                     /\ pc' = "ReadObjects"
                     /\ result' = result
                ELSE Fail /\ UNCHANGED <<io_capabilities, pos>>
       ELSE /\ io_capabilities' = None
            /\ pc' = "ReadObjects"
            /\ UNCHANGED <<pos, result>>
    /\ UNCHANGED <<payload, other, calls, alone>>
    /\ UNCHANGED <<uuid, buf, frame_control, device_id, packet_id, mac_address,
                   capabilities, objects, offsets, events, traversals>>

\* One iteration of until_eof, r being the read of the next item.
until_eof(r) ==
    IF r.ok
    THEN /\ objects' = Append(objects, r.val[1])
         /\ offsets' = Append(offsets, pos)
         /\ pos' = pos + r.n
         /\ UNCHANGED <<pc, result>>
    ELSE IF r.eof
    THEN /\ pc' = "Done"
         /\ result' = "Ok"
         /\ UNCHANGED <<objects, offsets, pos>>
    ELSE Fail /\ UNCHANGED <<objects, offsets, pos>>

\* One step of the objects field: without objects_included the field is the
\* empty Vec; otherwise one iteration of until_eof.  A failed item rewinds the
\* cursor to where the item began.
ReadObjects ==
    /\ pc = "ReadObjects"
    /\ IF ~ObjectsIncluded(frame_control)
       THEN /\ pc' = "Done"
            /\ result' = "Ok"
            /\ UNCHANGED <<objects, offsets, pos>>
       ELSE until_eof(MiBeaconObject(buf, pos))
    /\ UNCHANGED <<payload, other, calls, alone>>
    /\ UNCHANGED <<uuid, buf, frame_control, device_id, packet_id, mac_address,
                   capabilities, io_capabilities, events, traversals>>

\* Mutant of IterSensorEvents: the traversal drains the objects it visits.
IterSensorEventsDraining ==
    /\ pc = "Done"
    /\ traversals < MaxTraversals
    /\ events' = iter_sensor_events(objects)
    /\ objects' = <<>>
    /\ traversals' = traversals + 1
    /\ UNCHANGED <<payload, other, calls, alone>>
    /\ UNCHANGED <<uuid, buf, pos, pc, frame_control, device_id, packet_id,
                   mac_address, capabilities, io_capabilities, offsets, result>>

\* ServiceAdvertisement::iter_sensor_events, consumed to its end.
IterSensorEvents ==
    /\ pc = "Done"
    /\ traversals < MaxTraversals
    /\ events' = iter_sensor_events(objects)
    /\ traversals' = traversals + 1
    /\ UNCHANGED <<payload, other, calls, alone>>
    /\ UNCHANGED <<uuid, buf, pos, pc, frame_control, device_id, packet_id,
                   mac_address, capabilities, io_capabilities, objects, offsets,
                   result>>

Next ==
    \/ parse_service_advertisement
    \/ ReadFrameControl
    \/ ReadDeviceId
    \/ ReadPacketId
    \/ ReadMac
    \/ ReadCapabilities
    \/ ReadIoCapabilities
    \/ ReadObjects
    \/ IterSensorEvents

Spec == Init /\ [][Next]_vars

\* FrameControl on its own: the decode of the frame_control field of a slice
\* of 0, 1 or 2 arbitrary bytes.
InitFrameControl ==
    /\ uuid = MIBEACON_UUID
    /\ \E b0 \in 0 .. 255, b1 \in 0 .. 255, n \in 0 .. 2 :
           buf = SubSeq(<<b0, b1>>, 1, n)
    /\ pos = 0
    /\ pc = "ReadFrameControl"
    /\ frame_control = NotRead
    /\ device_id = NoInteger
    /\ packet_id = NoInteger
    /\ mac_address = None
    /\ capabilities = None
    /\ io_capabilities = None
    /\ objects = <<>>
    /\ offsets = <<>>
    /\ result = "Pending"
    /\ events = <<>>
    /\ traversals = 0
    /\ payload = NotRead
    /\ other = None
    /\ calls = 1
    /\ alone = None

SpecFrameControl == InitFrameControl /\ [][ReadFrameControl]_vars

\* The steps of one call of parse_service_advertisement.  The call is an
\* ordinary synchronous function: once entered it runs until it returns, so a
\* decode step that stays possible is eventually taken.
Decode ==
    \/ parse_service_advertisement
    \/ ReadFrameControl
    \/ ReadDeviceId
    \/ ReadPacketId
    \/ ReadMac
    \/ ReadCapabilities
    \/ ReadIoCapabilities
    \/ ReadObjects

\* The slices of the fair specification: streams of objects of length 0 and
\* of length 2 behind headers with and without objects_included, whole and cut
\* short, and the slices handed in with the other UUIDs.
RECURSIVE LoopStreams(_)
LoopStreams(n) ==
    IF n = 0 THEN {<<>>}
    ELSE LET s == LoopStreams(n - 1)
         IN  s \cup {x \o r : x \in s,
                              r \in {Rec(39321, 0, <<>>), Rec(409, 0, <<>>),
                                     Rec(4100, 2, <<236, 0>>)}}

LoopInputs ==
    {<<MIBEACON_UUID, Cut(h \o s, c)>> :
        h \in {PlainHeader, SampleHeader, Hdr(0, 13), Hdr(32, 45)},
        s \in LoopStreams(MaxObjects), c \in 0 .. MaxCut}
    \cup {<<u, b>> : u \in {SCALE1_UUID} \cup OtherUuid, b \in OtherInputs}

InitFair ==
    /\ \E i \in LoopInputs : uuid = i[1] /\ buf = i[2]
    /\ pos = 0
    /\ pc = "Start"
    /\ frame_control = NotRead
    /\ device_id = NoInteger
    /\ packet_id = NoInteger
    /\ mac_address = None
    /\ capabilities = None
    /\ io_capabilities = None
    /\ objects = <<>>
    /\ offsets = <<>>
    /\ result = "Pending"
    /\ events = <<>>
    /\ traversals = 0
    /\ payload = NotRead
    /\ other = None
    /\ calls = 1
    /\ alone = None

\* Every decode step moves pc or the cursor, so fairness is stated on them.
SpecFair == InitFair /\ [][Next]_vars /\ WF_<<pc, pos>>(Decode)

----------------------------------------------------------------------------
(* Several calls of parse_service_advertisement.  Every call works on its  *)
(* own arguments and locals (the code has no static or shared state); the  *)
(* variables hold the call that is running and `other` a second call that  *)
(* has begun and is suspended, so that the steps of two calls interleave.  *)

MaxCalls == 3        \* calls begun in one behaviour

CallInputs ==
    {<<MIBEACON_UUID, HHCCJCY01_TEMPERATURE_READING>>,
     <<MIBEACON_UUID, <<113, 32>>>>,
     <<MIBEACON_UUID, PlainHeader \o Rec(4113, 2, <<1, 0>>) \o Rec(4100, 2, <<236, 0>>)>>,
     <<6159, HHCCJCY01_TEMPERATURE_READING>>}

InitCalls ==
    /\ \E i \in CallInputs : uuid = i[1] /\ buf = i[2]
    /\ pos = 0
    /\ pc = "Start"
    /\ frame_control = NotRead
    /\ device_id = NoInteger
    /\ packet_id = NoInteger
    /\ mac_address = None
    /\ capabilities = None
    /\ io_capabilities = None
    /\ objects = <<>>
    /\ offsets = <<>>
    /\ result = "Pending"
    /\ events = <<>>
    /\ traversals = 0
    /\ payload = NotRead
    /\ other = None
    /\ calls = 1
    /\ alone = None

\* The locals of the running call.
Locals ==
    [uuid |-> uuid, buf |-> buf, pos |-> pos, pc |-> pc,
     frame_control |-> frame_control, device_id |-> device_id,
     packet_id |-> packet_id, mac_address |-> mac_address,
     capabilities |-> capabilities, io_capabilities |-> io_capabilities,
     objects |-> objects, offsets |-> offsets, result |-> result,
     events |-> events, traversals |-> traversals]

\* What a call returns: the error, or the decoded advertisement.
Outcome(c) ==
    <<c.result, c.frame_control, c.device_id, c.packet_id, c.mac_address,
      c.capabilities, c.io_capabilities, c.objects>>

\* Mutant of Begin: the object list of the previous call is kept.
BeginKeepingObjects(i) ==
    /\ uuid' = i[1]
    /\ buf' = i[2]
    /\ pos' = 0
    /\ pc' = "Start"
    /\ frame_control' = NotRead
    /\ device_id' = NoInteger
    /\ packet_id' = NoInteger
    /\ mac_address' = None
    /\ capabilities' = None
    /\ io_capabilities' = None
    /\ UNCHANGED <<objects, offsets>>
    /\ result' = "Pending"
    /\ events' = <<>>
    /\ traversals' = 0

\* A call begins: a new cursor over its own slice and nothing decoded.
Begin(i) ==
    /\ uuid' = i[1]
    /\ buf' = i[2]
    /\ pos' = 0
    /\ pc' = "Start"
    /\ frame_control' = NotRead
    /\ device_id' = NoInteger
    /\ packet_id' = NoInteger
    /\ mac_address' = None
    /\ capabilities' = None
    /\ io_capabilities' = None
    /\ objects' = <<>>
    /\ offsets' = <<>>
    /\ result' = "Pending"
    /\ events' = <<>>
    /\ traversals' = 0

\* A further call begins, after the running call has returned or while it is
\* still running (it is then suspended).
Call ==
    /\ calls < MaxCalls
    /\ pc \in {"Done", "Failed"} \/ other = None
    /\ \E i \in CallInputs : Begin(i)
    /\ calls' = calls + 1
    /\ other' = IF pc \in {"Done", "Failed"} THEN other ELSE Some(Locals)
    /\ alone' = IF calls = 1 /\ pc \in {"Done", "Failed"}
                THEN Some([uuid |-> uuid, buf |-> buf, outcome |-> Outcome(Locals)])
                ELSE alone
    /\ UNCHANGED payload

\* The scheduler runs the suspended call and suspends the running one.
Switch ==
    /\ other # None
    /\ other' = Some(Locals)
    /\ uuid' = other[1].uuid
    /\ buf' = other[1].buf
    /\ pos' = other[1].pos
    /\ pc' = other[1].pc
    /\ frame_control' = other[1].frame_control
    /\ device_id' = other[1].device_id
    /\ packet_id' = other[1].packet_id
    /\ mac_address' = other[1].mac_address
    /\ capabilities' = other[1].capabilities
    /\ io_capabilities' = other[1].io_capabilities
    /\ objects' = other[1].objects
    /\ offsets' = other[1].offsets
    /\ result' = other[1].result
    /\ events' = other[1].events
    /\ traversals' = other[1].traversals
    /\ UNCHANGED <<payload, calls, alone>>

NextCalls ==
    \/ Next
    \/ Call
    \/ Switch

SpecCalls == InitCalls /\ [][NextCalls]_vars

----------------------------------------------------------------------------
(* MiScaleServiceAdvertisement::from_slice and its iter_sensor_events as a *)
(* state machine of its own: the slices handed to from_slice.              *)

Zeros(n) == [i \in 1 .. n |-> 0]
Le16(v) == <<v % 256, v \div 256>>
V1Body(h, w) == <<h>> \o Le16(w) \o Zeros(7)
V2Body(h, i, w) == h \o Zeros(7) \o Le16(i) \o Le16(w)
ScaleAdvert(dev, body) == Zeros(2) \o Le16(dev) \o body

ScaleWeights == {0, 1, 1000, 12345, 65535}
ScaleImpedances == {0, 500}
V1Headers == {0, 1, 16, 17, 32, 128, 129}
V2Headers == {<<0, 0>>, <<128, 0>>, <<0, 2>>, <<128, 2>>, <<0, 1>>, <<128, 3>>,
              <<0, 4>>}
\* A device id neither MiScalePacket variant accepts (0x1234).
OtherDeviceId == 4660

ScaleInputs ==
    {Cut(ScaleAdvert(6173, V1Body(h, w)), c) :
        h \in V1Headers, w \in ScaleWeights, c \in 0 .. MaxCut}
    \cup {Cut(ScaleAdvert(6171, V2Body(h, i, w)), c) :
        h \in V2Headers, i \in ScaleImpedances, w \in ScaleWeights,
        c \in 0 .. MaxCut}
    \cup {ScaleAdvert(OtherDeviceId, V1Body(0, 1000)),
          ScaleAdvert(6173, V2Body(<<0, 0>>, 500, 1000)),
          ScaleAdvert(6171, V1Body(0, 1000))}

InitScale ==
    /\ uuid = NotRead
    /\ buf \in ScaleInputs
    /\ pos = 0
    /\ pc = "ReadScaleReserved"
    /\ frame_control = NotRead
    /\ device_id = NoInteger
    /\ packet_id = NoInteger
    /\ mac_address = None
    /\ capabilities = None
    /\ io_capabilities = None
    /\ objects = <<>>
    /\ offsets = <<>>
    /\ result = "Pending"
    /\ events = <<>>
    /\ traversals = 0
    /\ payload = NotRead
    /\ other = None
    /\ calls = 1
    /\ alone = None

NotOfScale ==
    UNCHANGED <<uuid, buf, frame_control, packet_id, mac_address, capabilities,
                io_capabilities, objects, offsets, other, calls, alone>>

ReadScaleReserved ==
    /\ pc = "ReadScaleReserved"
    /\ IF ReadU16(buf, pos).ok
       THEN pos' = pos + 2 /\ pc' = "ReadScaleDeviceId" /\ result' = result
       ELSE Fail /\ pos' = pos
    /\ UNCHANGED <<device_id, payload, events, traversals>>
    /\ NotOfScale

ReadScaleDeviceId ==
    /\ pc = "ReadScaleDeviceId"
    /\ IF ReadU16(buf, pos).ok
       THEN /\ device_id' = ReadU16(buf, pos).val[1]
            /\ pos' = pos + 2
            /\ pc' = "ReadScalePayload"
            /\ result' = result
       ELSE Fail /\ UNCHANGED <<device_id, pos>>
    /\ UNCHANGED <<payload, events, traversals>>
    /\ NotOfScale

ReadScalePayload ==
    /\ pc = "ReadScalePayload"
    /\ IF MiScalePacket(device_id, buf, pos).ok
       THEN /\ payload' = MiScalePacket(device_id, buf, pos).val[1]
            /\ pos' = pos + MiScalePacket(device_id, buf, pos).n
            /\ pc' = "Done"
            /\ result' = "Ok"
       ELSE Fail /\ UNCHANGED <<payload, pos>>
    /\ UNCHANGED <<device_id, events, traversals>>
    /\ NotOfScale

\* MiScaleServiceAdvertisement::iter_sensor_events, consumed to its end.
MiScaleIterSensorEvents ==
    /\ pc = "Done"
    /\ traversals < MaxTraversals
    /\ events' = miscale_iter_sensor_events(payload)
    /\ traversals' = traversals + 1
    /\ UNCHANGED <<pos, pc, result, device_id, payload>>
    /\ NotOfScale

NextScale ==
    \/ ReadScaleReserved
    \/ ReadScaleDeviceId
    \/ ReadScalePayload
    \/ MiScaleIterSensorEvents

SpecScale == InitScale /\ [][NextScale]_vars

----------------------------------------------------------------------------
(* What a payload slice announces, read off its raw bytes.                 *)

IsMiBeacon == uuid = MIBEACON_UUID
Terminated == pc \in {"Done", "Failed"}

AnnouncedMac(b) == Len(b) >= 1 /\ BitSet(b[1], 4)
AnnouncedCapabilities(b) == Len(b) >= 1 /\ BitSet(b[1], 5)
AnnouncedObjects(b) == Len(b) >= 1 /\ BitSet(b[1], 6)
CapabilitiesOffset(b) == 5 + (IF AnnouncedMac(b) THEN 6 ELSE 0)
AnnouncedIo(b) ==
    /\ AnnouncedCapabilities(b)
    /\ Len(b) > CapabilitiesOffset(b)
    /\ BitSet(b[CapabilitiesOffset(b) + 1], 5)
AnnouncedHeaderLen(b) ==
    CapabilitiesOffset(b) + (IF AnnouncedCapabilities(b) THEN 1 ELSE 0)
                          + (IF AnnouncedIo(b) THEN 2 ELSE 0)

\* b is a complete header followed by exactly one record of the given id and
\* length whose payload bytes are all present, and nothing else.
SingleObject(b, id, length) ==
    /\ AnnouncedObjects(b)
    /\ Len(b) = AnnouncedHeaderLen(b) + 3 + length
    /\ b[AnnouncedHeaderLen(b) + 1] + 256 * b[AnnouncedHeaderLen(b) + 2] = id
    /\ b[AnnouncedHeaderLen(b) + 3] = length

RawPayload(b) == SubSeq(b, AnnouncedHeaderLen(b) + 4, Len(b))

ValidLengths(id) ==
    UNION {Variants[k].lens : k \in {j \in DOMAIN Variants : Variants[j].id = id}}

\* Every collected object took its 3-byte prefix and exactly `length` payload
\* bytes from the slice.
NextOffset(i) == IF i < Len(objects) THEN offsets[i + 1] ELSE pos
ConsumedAsDeclared ==
    \A i \in DOMAIN objects : NextOffset(i) = offsets[i] + 3 + objects[i].length

----------------------------------------------------------------------------
(* Claims.                                                                 *)

\* C1: an object whose id is a known id and whose length is none of the
\* lengths valid for that id makes the decode fail, so no successfully
\* decoded advertisement holds such an object.
C1_KnownIdInvalidLengthFails ==
    result = "Ok" =>
        \A i \in DOMAIN objects :
            objects[i].id \in VariantIds =>
                objects[i].length \in ValidLengths(objects[i].id)

\* C2: in a successfully decoded advertisement every object occupies 3 + length
\* bytes: the next object (or the end of the decode) starts right after them.
C2_PayloadOccupiesLength ==
    result = "Ok" => ConsumedAsDeclared

\* C3: when 1 or 2 bytes remain after the header and the complete objects,
\* the decode fails; success leaves no such remainder.
C3_TrailingPrefixFails ==
    ~ /\ result = "Ok"
      /\ frame_control.objects_included
      /\ ConsumedAsDeclared
      /\ Len(buf) - pos \in {1, 2}

\* C4: an object whose declared length exceeds the bytes that remain after its
\* prefix makes the decode fail, so every object of a successful decode lies
\* within the slice.
C4_TruncatedPayloadFails ==
    result = "Ok" =>
        \A i \in DOMAIN objects : offsets[i] + 3 + objects[i].length <= Len(buf)

\* C5: a slice shorter than the header it announces never decodes: the decode
\* ends in ParsingFailed and never reaches the objects, so no missing header
\* field is replaced by a default or by None.
C5_ShortHeaderFails ==
    (IsMiBeacon /\ Len(buf) < AnnouncedHeaderLen(buf)) =>
        /\ result # "Ok"
        /\ pc \notin {"ReadObjects", "Done"}
        /\ Terminated => result = "ParsingFailed"

C5_Witness ==
    /\ IsMiBeacon
    /\ Len(buf) >= 5
    /\ Len(buf) < AnnouncedHeaderLen(buf)
    /\ pc = "Failed"
    /\ result = "ParsingFailed"

\* C6: in a successfully decoded advertisement the optional header fields are
\* present exactly when their flags say so, and objects is empty when
\* objects_included is false.
C6_OptionalFieldsFollowFlags ==
    result = "Ok" =>
        /\ IsSome(mac_address) <=> frame_control.mac_included
        /\ IsSome(capabilities) <=> frame_control.capabilities_included
        /\ IsSome(io_capabilities) <=> (IsSome(capabilities) /\ capabilities[1].io)
        /\ ~frame_control.objects_included => objects = <<>>

C6_Witness ==
    /\ result = "Ok"
    /\ ~frame_control.mac_included
    /\ IsSome(io_capabilities)
    /\ ~frame_control.objects_included
    /\ Len(buf) > pos

\* C7: an object whose id is no known id decodes to the Unknown payload holding
\* exactly its `length` payload bytes in buffer order and yields no sensor
\* event; a slice holding one such object with all its bytes decodes.
C7_UnknownIdsDecodeRaw ==
    /\ result = "Ok" =>
        \A i \in DOMAIN objects :
            objects[i].id \notin VariantIds =>
                /\ objects[i].payload.case = "Unknown"
                /\ Len(objects[i].payload.fields[1]) = objects[i].length
                /\ objects[i].payload.fields[1]
                     = SubSeq(buf, offsets[i] + 4, offsets[i] + 3 + objects[i].length)
                /\ to_sensor_events(objects[i].payload) = <<>>
    /\ \A id \in UnknownIds, l \in DeclaredLengths :
        (IsMiBeacon /\ Terminated /\ SingleObject(buf, id, l)) =>
            /\ result = "Ok"
            /\ Len(objects) = 1
            /\ traversals > 0 => events = <<>>

C7_Witness ==
    /\ result = "Ok"
    /\ traversals > 0
    /\ SingleObject(buf, 39321, 9)
    /\ Len(objects) = 1
    /\ objects[1].payload = [case |-> "Unknown", fields |-> <<RawPayload(buf)>>]
    /\ events = <<>>

\* C8: in a successfully decoded advertisement only objects whose id is no
\* known id carry the Unknown payload.
C8_UnknownOnlyForUnknownIds ==
    result = "Ok" =>
        \A i \in DOMAIN objects :
            objects[i].payload.case = "Unknown" => objects[i].id \notin VariantIds

\* C9: a slice holding one power-and-temperature object (id 0x1005, length 2)
\* decodes and yields two events, a BinaryMeasurement and a NumericMeasurement.
C9_PowerAndTemperatureTwoEvents ==
    (IsMiBeacon /\ Terminated /\ SingleObject(buf, 4101, 2)) =>
        /\ result = "Ok"
        /\ Len(iter_sensor_events(objects)) = 2
        /\ iter_sensor_events(objects)[1].kind = "BinaryMeasurement"
        /\ iter_sensor_events(objects)[2].kind = "NumericMeasurement"

\* C10: a slice holding one object of a numeric id at its length decodes and
\* yields exactly one NumericMeasurement with the documented kind, unit and
\* scaling of the raw value.
Signed16(u) == IF u >= 32768 THEN u - 65536 ELSE u
Raw16(raw) == raw[1] + 256 * raw[2]
Raw24(raw) == raw[1] + 256 * raw[2] + 65536 * raw[3]
Measured(type, num, den, unit) ==
    <<[kind |-> "NumericMeasurement", measurement_type |-> type,
       value |-> [num |-> num, den |-> den], unit |-> unit]>>
NumericIds == {<<4100, 2>>, <<4102, 2>>, <<4103, 3>>, <<4104, 1>>, <<4105, 2>>,
               <<4106, 1>>, <<4115, 1>>}
Documented(id, raw) ==
    CASE id = 4100 -> Measured("Temperature", Signed16(Raw16(raw)), 10, "DegreesCelsius")
      [] id = 4102 -> Measured("Humidity", Raw16(raw), 10, "Percent")
      [] id = 4103 -> Measured("Illuminance", Raw24(raw), 1, "Lux")
      [] id = 4104 -> Measured("Moisture", raw[1], 1, "Percent")
      [] id = 4105 -> Measured("Conductivity", Raw16(raw), 1, "MicrosiemensPerCentimeter")
      [] id = 4106 -> Measured("BatteryPower", raw[1], 1, "Percent")
      [] id = 4115 -> Measured("RemainingSupplies", raw[1], 1, "Percent")

C10_NumericScaling ==
    \A x \in NumericIds :
        (IsMiBeacon /\ Terminated /\ SingleObject(buf, x[1], x[2])) =>
            /\ result = "Ok"
            /\ iter_sensor_events(objects) = Documented(x[1], RawPayload(buf))
            /\ traversals > 0 => events = Documented(x[1], RawPayload(buf))

C10_Witness ==
    /\ traversals > 0
    /\ SingleObject(buf, 4100, 2)
    /\ RawPayload(buf) = <<236, 0>>
    /\ events = Measured("Temperature", 236, 10, "DegreesCelsius")


\* C11: id 0x1010 (length 2) yields a FormaldehydeConcentration of raw/100
\* mg/m3 and id 0x101C (length 2) one of raw/1000 mg/m3; the two ids given the
\* same nonzero raw value yield different concentrations.
SameValue(a, b) == a.num * b.den = b.num * a.den
Formaldehyde(raw, den) ==
    Measured("FormaldehydeConcentration", Raw16(raw), den, "MilligramPerCubicMeter")
FormaldehydeScaled ==
    /\ (IsMiBeacon /\ Terminated /\ SingleObject(buf, 4112, 2)) =>
            /\ result = "Ok"
            /\ iter_sensor_events(objects) = Formaldehyde(RawPayload(buf), 100)
    /\ (IsMiBeacon /\ Terminated /\ SingleObject(buf, 4124, 2)) =>
            /\ result = "Ok"
            /\ iter_sensor_events(objects) = Formaldehyde(RawPayload(buf), 1000)
    /\ \A v \in FormaldehydeRaws :
            (IsMiBeacon /\ Terminated /\ buf = FormaldehydePair(v)) =>
                /\ result = "Ok"
                /\ iter_sensor_events(objects)
                     = Formaldehyde(v, 100) \o Formaldehyde(v, 1000)
                /\ traversals > 0 => events = iter_sensor_events(objects)

C11_FormaldehydeScaling ==
    /\ FormaldehydeScaled
    /\ \A v \in FormaldehydeRaws :
            (buf = FormaldehydePair(v) /\ traversals > 0 /\ Raw16(v) # 0) =>
                ~SameValue(events[1].value, events[2].value)

C11_Witness ==
    /\ buf = FormaldehydePair(<<236, 0>>)
    /\ traversals > 0
    /\ events = Formaldehyde(<<236, 0>>, 100) \o Formaldehyde(<<236, 0>>, 1000)

\* C11 as stated, for every raw value: the two concentrations differ.
C11_DifferentForEveryRaw ==
    /\ FormaldehydeScaled
    /\ \A v \in FormaldehydeRaws :
            (buf = FormaldehydePair(v) /\ traversals > 0) =>
                ~SameValue(events[1].value, events[2].value)

\* C12: a scale packet whose weight is present yields a Weight event in
\* kilograms of raw * 0.0045359237 when the pound flag is set, raw * 0.01 when
\* the catty flag is set and the pound flag is not, and raw * 0.005 when
\* neither is set; raw 1000 with neither flag is exactly 5 kg.
ScaleDevice(b) == b[3] + 256 * b[4]
RawPounds(b) == IF ScaleDevice(b) = 6173 THEN BitSet(b[5], 0) ELSE BitSet(b[5], 7)
RawCatty(b) == IF ScaleDevice(b) = 6173 THEN BitSet(b[5], 4) ELSE BitSet(b[6], 1)
RawRemoved(b) == IF ScaleDevice(b) = 6173 THEN BitSet(b[5], 7) ELSE BitSet(b[6], 0)
RawWeight(b) ==
    IF ScaleDevice(b) = 6173 THEN b[6] + 256 * b[7] ELSE b[16] + 256 * b[17]
\* The f64 product v equals w * f (w the raw weight v was computed from).
IsProduct(v, w, f) == v.num = w /\ (w = 0 \/ v.factor = f)
IsKilograms(v, k) == v.num * v.factor.mant = k * 10 ^ v.factor.exp
WeightEventPresent ==
    /\ Len(events) >= 1
    /\ events[1].kind = "NumericMeasurement"
    /\ events[1].measurement_type = "Weight"
    /\ events[1].unit = "Kilogram"
    /\ \A i \in 2 .. Len(events) : events[i].measurement_type # "Weight"
ScaleWeighed == result = "Ok" /\ traversals > 0 /\ ~RawRemoved(buf)

C12_WeightKilograms ==
    ScaleWeighed =>
        /\ WeightEventPresent
        /\ RawPounds(buf) =>
                IsProduct(events[1].value, RawWeight(buf), OneHundredPounds)
        /\ (RawCatty(buf) /\ ~RawPounds(buf)) =>
                IsProduct(events[1].value, RawWeight(buf), OneHundredCatty)
        /\ (~RawCatty(buf) /\ ~RawPounds(buf)) =>
                /\ IsProduct(events[1].value, RawWeight(buf), TwoHundredKilograms)
                /\ RawWeight(buf) = 1000 => IsKilograms(events[1].value, 5)

C12_Witness ==
    /\ ScaleWeighed
    /\ RawWeight(buf) = 1000
    /\ RawCatty(buf) /\ ~RawPounds(buf)
    /\ events[1].value = [num |-> 1000, factor |-> OneHundredCatty]
    /\ IsKilograms(events[1].value, 10)

\* C12 as stated: raw * 0.01 whenever the catty flag is set.
C12_CattyWheneverFlagSet ==
    ScaleWeighed =>
        /\ WeightEventPresent
        /\ RawPounds(buf) =>
                IsProduct(events[1].value, RawWeight(buf), OneHundredPounds)
        /\ RawCatty(buf) =>
                IsProduct(events[1].value, RawWeight(buf), OneHundredCatty)
        /\ (~RawCatty(buf) /\ ~RawPounds(buf)) =>
                /\ IsProduct(events[1].value, RawWeight(buf), TwoHundredKilograms)
                /\ RawWeight(buf) = 1000 => IsKilograms(events[1].value, 5)

\* C13: a traversal of the sensor events leaves the decoded advertisement
\* (header fields, objects, result) unchanged, and every traversal after the
\* first yields the same event sequence as the one before it.
Advertisement ==
    <<frame_control, device_id, packet_id, mac_address, capabilities,
      io_capabilities, objects, result>>
C13_TraversalRepeatable ==
    [][traversals' # traversals =>
          /\ Advertisement' = Advertisement
          /\ traversals >= 1 => events' = events]_vars

C13_Witness ==
    /\ traversals = 2
    /\ Len(objects) = 2
    /\ Len(events) >= 1

\* C14: the two documented sample frames decode successfully with
\* mac_included, capabilities_included and objects_included set, and each
\* yields exactly one event: Temperature 23.6 degrees Celsius (236/10) and
\* Moisture 23 percent.
SampleFlags ==
    /\ frame_control.mac_included
    /\ frame_control.capabilities_included
    /\ frame_control.objects_included
    /\ mac_address = Some(MacBytes)
    /\ IsSome(capabilities)
    /\ Len(objects) = 1
SampleDecodes(frame, expected) ==
    (IsMiBeacon /\ Terminated /\ buf = frame) =>
        /\ result = "Ok"
        /\ SampleFlags
        /\ iter_sensor_events(objects) = expected
        /\ traversals > 0 => events = expected
C14_SampleFrames ==
    /\ SampleDecodes(HHCCJCY01_TEMPERATURE_READING,
                     Measured("Temperature", 236, 10, "DegreesCelsius"))
    /\ SampleDecodes(HHCCJCY01_MOISTURE_READING,
                     Measured("Moisture", 23, 1, "Percent"))

C14_Witness ==
    /\ buf = HHCCJCY01_MOISTURE_READING
    /\ result = "Ok"
    /\ packet_id = 215
    /\ traversals > 0
    /\ events = Measured("Moisture", 23, 1, "Percent")

\* C15: a call whose UUID is not the MiBeacon UUID ends in UnhandledService
\* for every buffer and reads none of it; a call with the MiBeacon UUID never
\* ends in UnhandledService, and when it fails (as it does on a buffer shorter
\* than its header) it ends in ParsingFailed.
NothingRead ==
    /\ pos = 0
    /\ frame_control = NotRead
    /\ objects = <<>>
RECURSIVE Framed(_, _)
Framed(b, p) ==
    IF p = Len(b) THEN TRUE
    ELSE IF p + 3 > Len(b) THEN FALSE
    ELSE IF p + 3 + b[p + 3] > Len(b) THEN FALSE
    ELSE Framed(b, p + 3 + b[p + 3])
RECURSIVE RecordsOf(_, _)
RecordsOf(b, p) ==
    IF p >= Len(b) THEN <<>>
    ELSE <<[offset |-> p, id |-> b[p + 1] + 256 * b[p + 2], length |-> b[p + 3]]>>
         \o RecordsOf(b, p + 3 + b[p + 3])
Decoded ==
    [i \in DOMAIN objects |->
        [offset |-> offsets[i], id |-> objects[i].id, length |-> objects[i].length]]
C16_ObjectOrderPreserved ==
    (/\ result = "Ok"
     /\ frame_control.objects_included
     /\ Framed(buf, AnnouncedHeaderLen(buf))) =>
        Decoded = RecordsOf(buf, AnnouncedHeaderLen(buf))

\* C17: for the ids with two lengths (0x0008: 1 or 5, 0x0010: 1 or 2,
\* 0x3003: 5 or 6) the optional trailing field (timestamp, score, score) is
\* present, holding the trailing bytes, at the longer length and absent at
\* the shorter one.
TwoLengthIds ==
    {[id |-> 8, name |-> "ArmingEvent", short |-> 1, long |-> 5, field |-> 2],
     [id |-> 16, name |-> "ToothbrushEvent", short |-> 1, long |-> 2, field |-> 2],
     [id |-> 12291, name |-> "XiaobelToothbrushEvent", short |-> 5, long |-> 6,
      field |-> 3]}
\* The optional field as the bytes of the record give it.
Trailing(t, raw) ==
    IF t.id = 8 THEN <<raw[2] + 256 * raw[3], raw[4] + 256 * raw[5]>>
    ELSE raw[t.long]
C17_OptionalTrailingField ==
    \A t \in TwoLengthIds :
        /\ result = "Ok" =>
              \A i \in DOMAIN objects :
                  objects[i].payload.case = t.name =>
                      /\ objects[i].id = t.id
                      /\ objects[i].length \in {t.short, t.long}
                      /\ IsSome(objects[i].payload.fields[t.field])
                           <=> objects[i].length = t.long
        /\ \A l \in {t.short, t.long} :
              (/\ IsMiBeacon /\ Terminated /\ SingleObject(buf, t.id, l)
               /\ RawPayload(buf)[1] \in ToothbrushEventType) =>
                  /\ result = "Ok"
                  /\ objects[1].payload.case = t.name
                  /\ objects[1].payload.fields[t.field]
                       = IF l = t.long THEN Some(Trailing(t, RawPayload(buf)))
                         ELSE None

C17_Witness ==
    /\ result = "Ok"
    /\ SingleObject(buf, 8, 5)
    /\ RawPayload(buf) = <<1, 1, 1, 1, 1>>
    /\ objects[1].payload.case = "ArmingEvent"
    /\ objects[1].payload.fields[2] = Some(<<257, 257>>)

\* C18: an object of id 0x101C decodes as SmartPillow when its length is 1
\* and as FormaldehydeConcentrationNew (16-bit value, /1000) when its length
\* is 2, whatever its payload bytes are.
PillowState(byte) ==
    IF byte = 0 THEN [case |-> "OutOfBed", v |-> 0]
    ELSE IF byte = 1 THEN [case |-> "InBed", v |-> 1]
    ELSE [case |-> "Reserved", v |-> byte]
C18_LengthDisambiguates ==
    /\ result = "Ok" =>
          \A i \in DOMAIN objects :
              objects[i].id = 4124 =>
                  /\ objects[i].length = 1 => objects[i].payload.case = "SmartPillow"
                  /\ objects[i].length = 2 =>
                         objects[i].payload.case = "FormaldehydeConcentrationNew"
    /\ (IsMiBeacon /\ Terminated /\ SingleObject(buf, 4124, 1)) =>
          /\ result = "Ok"
          /\ objects[1].payload
               = [case |-> "SmartPillow", fields |-> <<PillowState(RawPayload(buf)[1])>>]
    /\ (IsMiBeacon /\ Terminated /\ SingleObject(buf, 4124, 2)) =>
          /\ result = "Ok"
          /\ objects[1].payload
               = [case |-> "FormaldehydeConcentrationNew",
                  fields |-> <<Raw16(RawPayload(buf))>>]
          /\ iter_sensor_events(objects) = Formaldehyde(RawPayload(buf), 1000)

C18_Witness ==
    /\ result = "Ok"
    /\ SingleObject(buf, 4124, 1)
    /\ RawPayload(buf) = <<255>>
    /\ objects[1].payload.case = "SmartPillow"
    /\ objects[1].payload.fields[1].case = "Reserved"

\* C19: the key id of a fingerprint event (id 0x0006, length 5) decodes to
\* LockAdministrator iff its four bytes are 00 00 00 00, to UnknownOperator
\* iff they are FF FF FF FF, and otherwise to KeyId carrying the value of the
\* four bytes read little-endian.
KeyBytes(raw) == SubSeq(raw, 1, 4)
KeyValue(raw) == <<raw[1] + 256 * raw[2], raw[3] + 256 * raw[4]>>
C19_FingerprintKeyId ==
    (/\ IsMiBeacon /\ Terminated /\ SingleObject(buf, 6, 5)
     /\ RawPayload(buf)[5] \in FingerprintEventMatchingResult) =>
        /\ result = "Ok"
        /\ objects[1].payload.case = "FingerprintEvent"
        /\ objects[1].payload.fields[2] = RawPayload(buf)[5]
        /\ objects[1].payload.fields[1].case = "LockAdministrator"
             <=> KeyBytes(RawPayload(buf)) = <<0, 0, 0, 0>>
        /\ objects[1].payload.fields[1].case = "UnknownOperator"
             <=> KeyBytes(RawPayload(buf)) = <<255, 255, 255, 255>>
        /\ objects[1].payload.fields[1].case
             \in {"LockAdministrator", "UnknownOperator", "KeyId"}
        /\ objects[1].payload.fields[1].case = "KeyId" =>
               objects[1].payload.fields[1].v = KeyValue(RawPayload(buf))

C19_Witness ==
    /\ result = "Ok"
    /\ SingleObject(buf, 6, 5)
    /\ RawPayload(buf) = <<255, 255, 255, 255, 6>>
    /\ objects[1].payload.case = "FingerprintEvent"
    /\ objects[1].payload.fields[1].case = "UnknownOperator"

\* C20: a call that begins starts from nothing decoded, and every call that
\* has returned, whether other calls ran before it or interleaved with it,
\* returned what the same (uuid, bytes) returned when it ran alone.
Returned(c) == c.pc \in {"Done", "Failed"}
SameAsAlone(c) ==
    (Returned(c) /\ c.uuid = alone[1].uuid /\ c.buf = alone[1].buf) =>
        Outcome(c) = alone[1].outcome
C20_CallsIndependent ==
    /\ pc = "Start" =>
          /\ pos = 0 /\ objects = <<>> /\ offsets = <<>>
          /\ result = "Pending" /\ events = <<>>
    /\ alone # None =>
          /\ SameAsAlone(Locals)
          /\ other # None => SameAsAlone(other[1])

C20_Witness ==
    /\ calls = 3
    /\ alone # None
    /\ other # None
    /\ other[1].result = "ParsingFailed"
    /\ alone[1].buf = HHCCJCY01_TEMPERATURE_READING
    /\ uuid = alone[1].uuid
    /\ buf = alone[1].buf
    /\ result = "Ok"
    /\ Len(objects) = 1

----------------------------------------------------------------------------
(* The decode schedule.                                                    *)

\* The fields of MiBeaconServiceAdvertisement in declaration order, between
\* the dispatch on the UUID and the end of the decode.
Schedule ==
    <<"Start", "ReadFrameControl", "ReadDeviceId", "ReadPacketId", "ReadMac",
      "ReadCapabilities", "ReadIoCapabilities", "ReadObjects", "Done">>
Rank(s) == CHOOSE i \in DOMAIN Schedule : Schedule[i] = s

\* A step that leaves pc goes to the next field of the schedule or fails.
Forward ==
    pc' # pc =>
        /\ pc \in {Schedule[i] : i \in 1 .. 8}
        /\ \/ pc' = "Failed"
           \/ Rank(pc') = Rank(pc) + 1

\* A conditional field read n bytes into `after` when its guard holds, and
\* read nothing, leaving None, when it does not; it can fail only when read.
Gated(at, guard, before, after, n) ==
    pc = at =>
        /\ frame_control # NotRead
        /\ pc' # "Failed" =>
               IF guard THEN pos' = pos + n /\ IsSome(after) /\ before = None
               ELSE pos' = pos /\ after = None
        /\ pc' = "Failed" => guard

\* The objects field reads objects only when objects_included is set.
GatedObjects ==
    pc = "ReadObjects" =>
        IF frame_control.objects_included
        THEN \/ pc' = "ReadObjects" /\ Len(objects') = Len(objects) + 1 /\ pos' > pos
             \/ pc' \in {"Done", "Failed"} /\ objects' = objects /\ pos' = pos
        ELSE pc' = "Done" /\ objects' = objects /\ objects = <<>> /\ pos' = pos

\* C21: the header fields are decoded in the fixed order frame control, device
\* id, packet id, MAC, capabilities, IO capabilities, objects; no step is taken
\* again once left, and a conditional step reads its field iff its guard,
\* decoded in an earlier step, is true.
C21_FixedSchedule ==
    [][/\ Forward
       /\ Gated("ReadMac", frame_control.mac_included, mac_address,
                mac_address', 6)
       /\ Gated("ReadCapabilities", frame_control.capabilities_included,
                capabilities, capabilities', 1)
       /\ Gated("ReadIoCapabilities", IsSome(capabilities) /\ capabilities[1].io,
                io_capabilities, io_capabilities', 2)
       /\ GatedObjects]_vars

\* A decode that skipped the MAC address, read the capabilities and the IO
\* capabilities, and collected an object.
C21_Witness ==
    /\ result = "Ok"
    /\ ~frame_control.mac_included /\ mac_address = None
    /\ IsSome(capabilities) /\ IsSome(io_capabilities)
    /\ Len(objects) >= 1

----------------------------------------------------------------------------
\* An iteration of the object loop that collects an object consumes at least
\* the 3 bytes of its prefix, and no step consumes bytes beyond the slice.
LoopConsumes ==
    /\ (pc = "ReadObjects" /\ pc' = "ReadObjects") => pos' >= pos + 3
    /\ pos' >= pos
    /\ pos' <= Len(buf)

\* Without objects_included the objects step ends the decode at once.
DoneAtOnce ==
    (pc = "ReadObjects" /\ ~frame_control.objects_included) =>
        pc' = "Done" /\ result' = "Ok"

\* C22: for every byte buffer the decode eventually reaches Done or a failure;
\* every iteration of the object loop consumes at least the 3 prefix bytes, so
\* objects of length 0 cannot make the loop spin, and Done is reached at once
\* when objects are not included.
C22_DecodeTerminates ==
    /\ <>Terminated
    /\ [][LoopConsumes /\ DoneAtOnce]_vars

\* A finished decode that collected two objects of length 0.
C22_Witness ==
    /\ pc = "Done"
    /\ Len(objects) = 2
    /\ \A i \in DOMAIN objects : objects[i].length = 0
    /\ pos = Len(buf)

----------------------------------------------------------------------------
\* Bit n of a byte, by division: bit 0 is the least significant.
Flag(byte, n) == (byte \div (2 ^ n)) % 2 = 1

FrameControlRead == pc = "ReadDeviceId" /\ Len(buf) = 2

\* The frame control that the bytes b0, b1 must give.
FrameControlOf(b0, b1) ==
    [is_encrypted |-> Flag(b0, 3),
     mac_included |-> Flag(b0, 4),
     capabilities_included |-> Flag(b0, 5),
     objects_included |-> Flag(b0, 6),
     mesh |-> Flag(b0, 7),
     registered |-> Flag(b1, 0),
     solicited |-> Flag(b1, 1),
     auth_mode |-> (b1 \div 4) % 4,
     version |-> b1 \div 16]

\* C23: frame-control decoding is total on every 2-byte input (it fails only
\* on a shorter one) and uses fixed bit positions: in the first byte bit 3 =
\* encrypted, 4 = mac_included, 5 = capabilities_included, 6 =
\* objects_included, 7 = mesh; in the second byte bit 0 = registered, 1 =
\* solicited, bits 2-3 = auth_mode (0..3), bits 4-7 = version (0..15); the
\* three low bits of the first byte affect no field.
C23_FrameControlBits ==
    /\ (Len(buf) = 2 /\ pc # "ReadFrameControl") => FrameControlRead
    /\ (Len(buf) < 2 /\ pc # "ReadFrameControl") => result = "ParsingFailed"
    /\ FrameControlRead =>
        /\ frame_control = FrameControlOf(buf[1], buf[2])
        /\ frame_control.auth_mode \in 0 .. 3
        /\ frame_control.version \in 0 .. 15
        /\ frame_control = FrameControl(<<buf[1] - (buf[1] % 8), buf[2]>>, 0).val[1]
        /\ pos = 2

\* A frame control read with reserved bits set, auth_mode 3 and version 15,
\* and with the flags of the two bytes differing.
C23_Witness ==
    /\ FrameControlRead
    /\ buf[1] % 8 = 5
    /\ frame_control.auth_mode = 3 /\ frame_control.version = 15
    /\ frame_control.mesh /\ ~frame_control.is_encrypted
    /\ frame_control.registered /\ ~frame_control.solicited

----------------------------------------------------------------------------
\* Byte k of the slice, counted from 0 as the layout is written.
Byte(k) == buf[k + 1]

\* Where the first object starts, from the flags of the decoded header.
FirstObjectOffset ==
    5 + (IF frame_control.mac_included THEN 6 ELSE 0)
      + (IF frame_control.capabilities_included THEN 1 ELSE 0)
      + (IF IsSome(capabilities) /\ capabilities[1].io THEN 2 ELSE 0)

\* C24: in every successfully decoded advertisement device_id = byte[2] +
\* 256*byte[3], packet_id = byte[4], the MAC address (if included) is the 6
\* bytes that follow, the first object starts at offset 5 + 6*[mac_included]
\* + 1*[capabilities_included] + 2*[capabilities.io], and every object id is
\* the little-endian value of the two bytes at which the object starts.
C24_HeaderLayout ==
    result = "Ok" =>
        /\ device_id = Byte(2) + 256 * Byte(3)
        /\ packet_id = Byte(4)
        /\ frame_control.mac_included =>
               mac_address = Some(<<Byte(5), Byte(6), Byte(7), Byte(8), Byte(9),
                                    Byte(10)>>)
        /\ objects # <<>> => offsets[1] = FirstObjectOffset
        /\ (frame_control.objects_included /\ objects = <<>>) =>
               pos = FirstObjectOffset
        /\ \A i \in DOMAIN objects :
               objects[i].id = Byte(offsets[i]) + 256 * Byte(offsets[i] + 1)

\* A decode with MAC address, capabilities and IO capabilities, a device id
\* whose high byte is not 0, and an object whose id has two different bytes.
C24_Witness ==
    /\ result = "Ok"
    /\ device_id = 32768 /\ packet_id = 255
    /\ IsSome(mac_address) /\ IsSome(io_capabilities)
    /\ Len(objects) = 1 /\ offsets[1] = 14 /\ objects[1].id = 4100

----------------------------------------------------------------------------
\* The UUIDs that service_uuid_to_type maps to a family other than MiBeacon.
OtherFamily ==
    /\ service_uuid_to_type(uuid) # None
    /\ service_uuid_to_type(uuid) # Some("MiBeacon")

\* C25: parse_service_advertisement decodes only the MiBeacon UUID: for the
\* HHCCJCY10, Scale1 and Scale2 UUIDs, which service_uuid_to_type maps to a
\* protocol family, it returns UnhandledService without reading the payload,
\* so a decoded advertisement or ParsingFailed results only from the MiBeacon
\* UUID.
C25_OnlyMiBeaconDecoded ==
    /\ uuid \in {HHCCJCY10_UUID, SCALE1_UUID, SCALE2_UUID} =>
           /\ OtherFamily
           /\ pc \in {"Start", "Failed"}
           /\ pc = "Failed" => result = "UnhandledService"
           /\ pos = 0 /\ frame_control = NotRead /\ objects = <<>>
    /\ OtherFamily => uuid \in {HHCCJCY10_UUID, SCALE1_UUID, SCALE2_UUID}
    /\ result \in {"Ok", "ParsingFailed"} =>
           service_uuid_to_type(uuid) = Some("MiBeacon") /\ uuid = MIBEACON_UUID

\* A well-formed MiBeacon frame handed in under the Scale1 UUID and refused.
C25_Witness ==
    /\ uuid = SCALE1_UUID
    /\ service_uuid_to_type(uuid) = Some("Scale1")
    /\ buf = SampleHeader \o Rec(4100, 2, <<236, 0>>)
    /\ result = "UnhandledService"

----------------------------------------------------------------------------
\* The slice holds a whole header that does not announce objects.
HeaderOnly ==
    /\ IsMiBeacon
    /\ Len(buf) >= AnnouncedHeaderLen(buf)
    /\ ~AnnouncedObjects(buf)

\* C26: when frame_control.objects_included is false, the decode succeeds with
\* an empty object list even if bytes remain after the header: the trailing
\* bytes are not read and are never reported as a failure.
C26_TrailingBytesIgnored ==
    HeaderOnly =>
        /\ result # "ParsingFailed"
        /\ objects = <<>> /\ events = <<>>
        /\ pos <= AnnouncedHeaderLen(buf)
        /\ Terminated =>
               /\ result = "Ok"
               /\ ~frame_control.objects_included
               /\ pos = AnnouncedHeaderLen(buf)

\* A successful decode without objects_included that left a whole, well-formed
\* record unread after the header.
C26_Witness ==
    /\ HeaderOnly
    /\ result = "Ok"
    /\ objects = <<>>
    /\ traversals > 0
    /\ Len(buf) = pos + 5
    /\ MiBeaconObject(buf, pos).ok

----------------------------------------------------------------------------
\* Object i has id 0x0012 and length 3; EventType is its third payload byte.
IsEvent12(i) == objects[i].id = 18 /\ objects[i].length = 3
EventType(i) == Byte(offsets[i] + 5)
EventValue(i) == Byte(offsets[i] + 3) + 256 * Byte(offsets[i] + 4)

----------------------------------------------------------------------------
\* The two payload bytes of object i as an unsigned little-endian integer, and
\* whether the high bit of the second byte is set.
Unsigned(i) == Byte(offsets[i] + 3) + 256 * Byte(offsets[i] + 4)
HighBit(i) == Byte(offsets[i] + 4) >= 128
Value(i) == to_sensor_events(objects[i].payload)[1].value

\* C28: the temperature payload (id 0x1004, length 2) is read as a signed
\* 16-bit little-endian two's-complement integer, so bytes with the high bit
\* set give a negative temperature (FF FF gives -0.1, the range is -3276.8 ..
\* 3276.7), while the humidity payload (id 0x1006) is read as unsigned
\* 0 .. 65535.
C28_TemperatureSigned ==
    \A i \in DOMAIN objects :
        /\ objects[i].payload.case = "Temperature" =>
            /\ objects[i].id = 4100 /\ objects[i].length = 2
            /\ Value(i).den = 10
            /\ Value(i).num \in -32768 .. 32767
            /\ Value(i).num = Unsigned(i) - (IF HighBit(i) THEN 65536 ELSE 0)
            /\ HighBit(i) <=> Value(i).num < 0
            /\ Unsigned(i) = 65535 => Value(i).num = -1
        /\ objects[i].payload.case = "Humidity" =>
            /\ objects[i].id = 4102 /\ objects[i].length = 2
            /\ Value(i).den = 10
            /\ Value(i).num \in 0 .. 65535
            /\ Value(i).num = Unsigned(i)

\* The bytes FF FF decoded as the temperature -0.1 and as the humidity 6553.5,
\* and yielded by a traversal.
C28_Witness ==
    /\ result = "Ok"
    /\ Len(objects) = 2
    /\ Unsigned(1) = 65535 /\ Unsigned(2) = 65535
    /\ events = Measured("Temperature", -1, 10, "DegreesCelsius")
                \o Measured("Humidity", 65535, 10, "Percent")

----------------------------------------------------------------------------
----------------------------------------------------------------------------
\* The events object i contributes, the objects that contribute one, and the
\* k-th of them in object order.
Contribution(i) == to_sensor_events(objects[i].payload)
Emitting == {i \in DOMAIN objects : Contribution(i) # <<>>}
NthEmitting(k) ==
    CHOOSE i \in Emitting : Cardinality({j \in Emitting : j < i}) = k - 1

====
